---- MODULE Spec2Model ----
(***************************************************************************)
(* State-machine model of src/main.py (YouTube Shorts bulk downloader):    *)
(* the Discovery loop (_scrape_shorts_data_phase), the Download            *)
(* Orchestrator (_download_videos), the Pipeline Controller                *)
(* (run_full_process) and the front-end's stop_scraping, which runs on     *)
(* the GUI thread while the pipeline runs on the worker thread.            *)
(***************************************************************************)
EXTENDS Integers, Sequences, FiniteSets, TLC

(* ------------------------------ bounds -------------------------------- *)
\* Distinct shorts the catalogue feed can present.
NumUrls == 2
\* Anchor elements one find_elements call returns, at most.
MaxElems == 2
\* Largest configured target_video_count (0 = unbounded).
MaxTarget == 2
\* Largest configured download_retries.
MaxRetries == 1
\* Largest configured batch_size.
MaxBatch == 2

(* -------------------------- program constants ------------------------- *)
\* no_new_urls_consecutive_scrolls >= 5: warning only.
StallWarn == 5
\* no_new_urls_consecutive_scrolls >= 10: stop scraping.
StallLimit == 10

\* self.driver = None: no browser session is referenced.
None == 0

\* The configured download_delay values, in seconds: 0, with which every
\* invocation gets a timeout of 0, and 1, the least delay with which the
\* downloader is given time to run.  A longer delay lengthens the sleeps and
\* the timeout and changes nothing else.
DownloadDelays == {0, 1}

(* ------------------------------- state -------------------------------- *)
VARIABLES
    config,                  \* self.config (read-only after construction)
    driver,                  \* self.driver: None or the id of a browser session
    sessions,                \* browser sessions that are open (the collaborator's state)
    next_session,            \* id the next webdriver.Chrome(...) gets
    scraped_data,            \* self.scraped_data: the ItemRecord store
    stop_scraping_flag,      \* self.stop_scraping_flag (threading.Event)
    scroll_count,            \* self.scroll_count
    no_new_urls_consecutive_scrolls,
    urls_found_set,          \* local of _scrape_shorts_data_phase
    last_height,             \* local of _scrape_shorts_data_phase
    num_urls_before_current_scan, \* local of _scrape_shorts_data_phase
    scan_idx,                \* elements of video_elements the for loop has consumed
    discovery_end,           \* termination state the phase reported (status_callback)
    scraping_successful,     \* value _scrape_shorts_data_phase returned
    feed_mode,               \* environment: "catalogue", "single" or "endless" feed
    feed_first_seen,         \* environment: qualifying URLs in the order the feed first presented them
    download_errors,         \* self.download_errors
    retry_attempt,           \* loop variable of the pass loop of _download_videos
    videos_to_download,      \* videos_to_download_in_this_attempt, as indices into the store
    batch_i,                 \* loop variable i of the batch loop
    current_batch_num,       \* local of _download_videos
    item_pos,                \* items of batch_videos the item loop has consumed
    folders,                 \* file system: names of the batch folders that exist
    clock,                   \* environment: wall clock, in seconds
    download_status,         \* last status_callback message of _download_videos
    folder_calls,            \* history: the os.makedirs calls of _download_videos
    attempted,               \* history: items the downloader was invoked for in this pass
    invocations,             \* history: number of downloader invocations
    passes,                  \* history: number of passes that went on to download
    status0,                 \* history: the statuses on entry to _download_videos
    scrape_attempt,          \* loop variable retry_attempt of run_full_process
    run_next,                \* how the try statement of run_full_process is left: "break" or "continue"
    worker_ret,              \* caller of the worker's _initialize_webdriver / _quit_driver
    desc_i,                  \* items the loop of _get_descriptions_phase has consumed
    description_successful,  \* value _get_descriptions_phase returned
    results_saved,           \* _save_final_results has run
    tables,                  \* file system: the batch workbooks, by folder
    stats_shown,             \* history: number of _display_final_stats calls
    phases,                  \* history: the phases started, in order
    cancel_phase,            \* history: the phase the worker was in when stop_scraping set the flag
    start_button,            \* state of ScrapingApp.start_button: "normal" or "disabled"
    cancel_button,           \* state of ScrapingApp.cancel_button
    scraper,                 \* ScrapingApp.scraper: the scraper of the last Start, or None
    scraping_thread,         \* ScrapingApp.scraping_thread: the thread of the last Start, or None
    alive_threads,           \* the worker threads that have been started and have not ended
    stop_flags,              \* the scrapers whose stop_scraping_flag is set
    pending_checks,          \* scheduled calls of _check_scraping_completion (self.after)
    next_thread,             \* identity of the next scraper and its thread
    entries,                 \* the texts of the input fields of the window
    dialog,                  \* the last message box shown, or the exception Tk reported
    scraper_config,          \* self.config of every scraper created
    sanitized_title,         \* local sanitized_title of _download_videos, as a sequence of characters
    hash_seed,               \* the interpreter's string-hash seed, drawn when the process starts
    output_names,            \* history: the file names put in --output in the current batch folder
    discarded,               \* history: records dropped by `self.scraped_data = []`
    iteration_base,          \* history: length of the store at the top of the current iteration
    zero_run,                \* history: latest consecutive iterations that appended no record
    folder_items,            \* history: by batch folder, the items the downloader was started for with it as target
    window_handles,          \* driver.window_handles: the open contexts of the session, while it is open
    current_window,          \* the context the session's commands go to (switch_to.window)
    original_window_handle,  \* local original_window_handle of _get_descriptions_phase
    next_handle,             \* handle the browser gives the next context it opens
    pc                       \* control location of each thread

\* State of _scrape_shorts_data_phase and of the feed.
discvars == << scroll_count, no_new_urls_consecutive_scrolls, urls_found_set, last_height,
               discovery_end, scraping_successful, feed_mode, feed_first_seen,
               num_urls_before_current_scan, scan_idx >>

\* State of _download_videos, of the file system and of the clock.
dlvars == << download_errors, retry_attempt, videos_to_download, batch_i,
             current_batch_num, item_pos, folders, clock, download_status,
             folder_calls, attempted, invocations, passes, status0 >>

\* State of run_full_process and _get_descriptions_phase, and the results.
runvars == << scrape_attempt, run_next, worker_ret, desc_i, description_successful,
              results_saved, tables, stats_shown, phases >>

ctlvars == << runvars, cancel_phase >>

\* History of the store kept for the properties; the program does not read it.
histvars == << discarded, iteration_base, zero_run, folder_items >>

\* The contexts of the browser session and the handle Enrichment keeps.
winvars == << window_handles, current_window, original_window_handle, next_handle >>

\* State of ScrapingApp: the buttons, the scraper and thread of the last Start,
\* the threads alive and the scheduled completion checks.
\* The input fields, the message boxes and the configurations handed out.
formvars == << entries, dialog, scraper_config >>

guivars == << start_button, cancel_button, scraper, scraping_thread, alive_threads,
              stop_flags, pending_checks, next_thread, formvars >>

\* State of the file-name computation of _download_videos.
fnvars == << sanitized_title, hash_seed, output_names >>

vars == << config, driver, sessions, next_session, scraped_data, stop_scraping_flag,
           discvars, dlvars, ctlvars, guivars, fnvars, histvars, winvars, pc >>

Threads == {"worker", "frontend"}

Range(s) == { s[i] : i \in 1..Len(s) }

(* ------------------------------ the feed ------------------------------ *)
\* Ids of the shorts of the catalogue feed.
Urls == 1..NumUrls

\* The title the page shows for a short: some anchors carry none.
FeedTitle(u) == IF u % 2 = 1 THEN "T" ELSE ""

\* An href as get_attribute("href") returns it: missing, absolute, or relative
\* to the channel URL.
Href(form, u) == [form |-> form, id |-> u]

NoHref == Href("none", 0)

Element(form, u) == [href |-> Href(form, u), title |-> FeedTitle(u)]

CatalogueElements ==
    {[href |-> NoHref, title |-> ""]} \cup { Element(f, u) : f \in {"abs", "rel"}, u \in Urls }

\* scrollHeight values the page can report.
Heights == {1, 2}

\* An iteration count no feed of NumUrls shorts can reach: StallLimit iterations
\* per short and StallLimit more.
IterationHorizon == StallLimit * (NumUrls + 1) + 1

\* Shorts the model lets an endless feed present: one more than any catalogue.
FreshLimit == NumUrls + 1

\* The short an endless feed presents next: one never presented before.
FreshElement == Element("abs", NumUrls + Len(feed_first_seen) + 1)

\* The anchors of a channel that has a single short.
SingleElements ==
    {[href |-> NoHref, title |-> ""], Element("abs", 1), Element("rel", 1)}

\* The anchor elements find_elements may hold at the next position of its list.
FeedElements ==
    CASE feed_mode = "catalogue" -> CatalogueElements
      [] feed_mode = "single" -> SingleElements
      [] OTHER -> IF Len(feed_first_seen) < FreshLimit THEN {FreshElement} ELSE {}

(* --------------------------- Discovery: data -------------------------- *)
\* urljoin that leaves a relative href as it is.
urljoinIdentity(href) == href

\* urljoin(channel_url, href): a relative href becomes absolute.
urljoin(href) == IF href.form = "rel" THEN Href("abs", href.id) ELSE href

\* `if href and "/shorts/" in href`
Qualifies(href) == href.form # "none"

ItemRecord(url, title) ==
    [url |-> url, title |-> title, description |-> "", status |-> "N"]

\* ScanElement without the `if href not in urls_found_set` test.
ScanElementNoDedup(acc, e) ==
    IF Qualifies(e.href)
    THEN LET href == urljoin(e.href)
         IN [data |-> Append(acc.data, ItemRecord(href, e.title)),
             found |-> acc.found \cup {href}]
    ELSE acc

\* One pass of the `for element in video_elements` body over element e.
ScanElement(acc, e) ==
    IF Qualifies(e.href)
    THEN LET href == urljoin(e.href)
         IN IF href \notin acc.found
            THEN [data |-> Append(acc.data, ItemRecord(href, e.title)),
                  found |-> acc.found \cup {href}]
            ELSE acc
    ELSE acc

StoreUrls(data) == [i \in 1..Len(data) |-> data[i].url]

(* --------------------- the feed's own bookkeeping ---------------------- *)
\* The feed's record of the shorts it has presented, in order of first
\* presentation, after it presents element e.
Presented(seen, e) ==
    IF e.href.form = "none" \/ Href("abs", e.href.id) \in Range(seen)
    THEN seen
    ELSE Append(seen, Href("abs", e.href.id))

(* -------------------------- browser collaborator ---------------------- *)
\* A driver call succeeds only on an open session; it may fail on one too
\* (timeout, stale element).
DriverAlive == driver # None /\ driver \in sessions

DriverCallResults == IF DriverAlive THEN {TRUE, FALSE} ELSE {FALSE}

(* ------------------------- Discovery: the loop ------------------------ *)
ScrapeReturn(end, ok) ==
    /\ discovery_end' = end
    /\ scraping_successful' = ok
    /\ pc' = [pc EXCEPT !["worker"] = "scrape_return"]

\* `except Exception as e:` of _scrape_shorts_data_phase
ScrapeExcept == ScrapeReturn("Failed", FALSE)

ScrapeBegin ==
    /\ pc["worker"] = "scrape_begin"
    /\ scraped_data' = << >>
    /\ discarded' = discarded + Len(scraped_data)
    /\ iteration_base' = 0
    /\ zero_run' = 0
    /\ urls_found_set' = {}
    /\ scroll_count' = 0
    /\ no_new_urls_consecutive_scrolls' = 0
    /\ feed_first_seen' = << >>
    /\ discovery_end' = "Running"
    /\ pc' = [pc EXCEPT !["worker"] = "scrape_open"]
    /\ UNCHANGED << folder_items, winvars, fnvars, guivars, config, driver, sessions, next_session, stop_scraping_flag,
                    last_height, scraping_successful, feed_mode,
                    scan_idx, num_urls_before_current_scan >>
    /\ UNCHANGED << dlvars, ctlvars >>

ScrapeOpen ==
    /\ pc["worker"] = "scrape_open"
    /\ \E ok \in DriverCallResults :
         IF ok
         THEN /\ \E h \in Heights : last_height' = h
              /\ pc' = [pc EXCEPT !["worker"] = "scrape_loop"]
              /\ UNCHANGED << discovery_end, scraping_successful >>
         ELSE /\ ScrapeExcept
              /\ UNCHANGED last_height
    /\ UNCHANGED << histvars, winvars, fnvars, guivars, config, driver, sessions, next_session, scraped_data,
                    stop_scraping_flag, scroll_count, no_new_urls_consecutive_scrolls,
                    urls_found_set, feed_mode, feed_first_seen,
                    scan_idx, num_urls_before_current_scan >>
    /\ UNCHANGED << dlvars, ctlvars >>

\* Top of `while True`: the cancellation check, the scroll, the sleep and
\* find_elements.
ScrapeLoop ==
    /\ pc["worker"] = "scrape_loop"
    /\ IF stop_scraping_flag
       THEN /\ ScrapeReturn("Cancelled", FALSE)
            /\ UNCHANGED << scroll_count, scan_idx, num_urls_before_current_scan >>
       ELSE /\ scroll_count' = scroll_count + 1
            /\ \E ok \in DriverCallResults :
                 IF ok
                 THEN /\ num_urls_before_current_scan' = Cardinality(urls_found_set)
                      /\ scan_idx' = 0
                      /\ pc' = [pc EXCEPT !["worker"] = "scrape_scan"]
                      /\ UNCHANGED << discovery_end, scraping_successful >>
                 ELSE /\ ScrapeExcept
                      /\ UNCHANGED << scan_idx, num_urls_before_current_scan >>
    /\ iteration_base' = Len(scraped_data)
    /\ UNCHANGED << discarded, zero_run, folder_items, winvars, fnvars, guivars, config, driver, sessions, next_session, scraped_data,
                    stop_scraping_flag, no_new_urls_consecutive_scrolls,
                    urls_found_set, last_height, feed_mode, feed_first_seen >>
    /\ UNCHANGED << dlvars, ctlvars >>

\* One round of `for element in video_elements`: the element's attributes are
\* read through the driver, then the record is appended if its URL is new.
ScrapeElement ==
    /\ pc["worker"] = "scrape_scan"
    /\ scan_idx < MaxElems
    /\ \E e \in FeedElements : \E ok \in DriverCallResults :
         IF ok
         THEN LET acc == ScanElement([data |-> scraped_data, found |-> urls_found_set], e)
              IN /\ scraped_data' = acc.data
                 /\ urls_found_set' = acc.found
                 /\ feed_first_seen' = Presented(feed_first_seen, e)
                 /\ scan_idx' = scan_idx + 1
                 /\ UNCHANGED << discovery_end, scraping_successful, pc >>
         ELSE /\ ScrapeExcept
              /\ UNCHANGED << scraped_data, urls_found_set, feed_first_seen, scan_idx >>
    /\ UNCHANGED << histvars, winvars, fnvars, guivars, config, driver, sessions, next_session, stop_scraping_flag,
                    scroll_count, no_new_urls_consecutive_scrolls, last_height,
                    feed_mode, num_urls_before_current_scan >>
    /\ UNCHANGED << dlvars, ctlvars >>

\* A counter that is never reset.
NextStallNoReset(found, before, stall) == stall + 1

\* `if len(urls_found_set) > num_urls_before_current_scan: ... = 0 else: ... += 1`
NextStall(found, before, stall) ==
    IF found > before THEN 0 ELSE stall + 1

\* StallStop with `>` for `>=`.
StallStopLate(stall) == stall >= StallWarn /\ stall > StallLimit

\* The nested `>= 5` / `>= 10` tests that end the loop.
StallStop(stall) == stall >= StallWarn /\ stall >= StallLimit

\* The target test with `>` for `>=`.
TargetReachedStrict ==
    /\ config.target_video_count > 0
    /\ Cardinality(urls_found_set) > config.target_video_count

\* `if target_video_count > 0 and len(urls_found_set) >= target_video_count`
TargetReached ==
    /\ config.target_video_count > 0
    /\ Cardinality(urls_found_set) >= config.target_video_count

\* After the for loop: the stall counter, the progress report, the target check.
ScrapeScanEnd ==
    /\ pc["worker"] = "scrape_scan"
    /\ no_new_urls_consecutive_scrolls' =
         NextStall(Cardinality(urls_found_set), num_urls_before_current_scan,
                   no_new_urls_consecutive_scrolls)
    /\ IF TargetReached
       THEN ScrapeReturn("TargetReached", TRUE)
       ELSE /\ pc' = [pc EXCEPT !["worker"] = "scrape_height"]
            /\ UNCHANGED << discovery_end, scraping_successful >>
    /\ zero_run' = IF Len(scraped_data) = iteration_base THEN zero_run + 1 ELSE 0
    /\ UNCHANGED << discarded, iteration_base, folder_items, winvars, fnvars, guivars, config, driver, sessions, next_session, scraped_data,
                    stop_scraping_flag, scroll_count, urls_found_set, last_height,
                    feed_mode, feed_first_seen, scan_idx, num_urls_before_current_scan >>
    /\ UNCHANGED << dlvars, ctlvars >>

ScrapeHeight ==
    /\ pc["worker"] = "scrape_height"
    /\ \E ok \in DriverCallResults :
         IF ok
         THEN \E new_height \in Heights :
                IF new_height = last_height
                THEN /\ ScrapeReturn("NoMoreContent", TRUE)
                     /\ UNCHANGED last_height
                ELSE /\ last_height' = new_height
                     /\ IF StallStop(no_new_urls_consecutive_scrolls)
                        THEN ScrapeReturn("StallLimit", TRUE)
                        ELSE /\ pc' = [pc EXCEPT !["worker"] = "scrape_loop"]
                             /\ UNCHANGED << discovery_end, scraping_successful >>
         ELSE /\ ScrapeExcept
              /\ UNCHANGED last_height
    /\ UNCHANGED << histvars, winvars, fnvars, guivars, config, driver, sessions, next_session, scraped_data,
                    stop_scraping_flag, scroll_count, no_new_urls_consecutive_scrolls,
                    urls_found_set, feed_mode, feed_first_seen,
                    scan_idx, num_urls_before_current_scan >>
    /\ UNCHANGED << dlvars, ctlvars >>

(* --------------------- _quit_driver and stop_scraping ------------------ *)
\* The phase whose code the worker is executing.
WorkerPhase ==
    CASE pc["worker"] \in {"scrape_begin", "scrape_open", "scrape_loop", "scrape_scan",
                           "scrape_height"} -> "Discovery"
      [] pc["worker"] \in {"desc_begin", "desc_handle", "desc_item", "desc_visit",
                           "desc_windows"} -> "Enrichment"
      [] pc["worker"] \in {"dl_begin", "dl_pass", "dl_batch", "dl_item", "dl_run",
                           "dl_batch_end", "dl_pass_end", "dl_completed"} -> "Download"
      [] pc["worker"] \in {"init_create", "init_timeout", "init_done", "init_raised",
                           "quit_check", "quit_call", "quit_finally", "quit_raise",
                           "quit_done"} ->
            IF worker_ret = "desc" THEN "Enrichment" ELSE "Controller"
      [] OTHER -> "Controller"

\* stop_scraping: log, set the flag, then _quit_driver, on the GUI thread.
StopScraping ==
    /\ pc["frontend"] = "idle"
    /\ stop_scraping_flag' = TRUE
    /\ cancel_phase' = WorkerPhase
    /\ pc' = [pc EXCEPT !["frontend"] = "quit_check"]
    /\ UNCHANGED << histvars, winvars, fnvars, guivars, config, driver, sessions, next_session, scraped_data, scroll_count,
                    no_new_urls_consecutive_scrolls, urls_found_set, last_height,
                    discovery_end, scraping_successful, feed_mode, feed_first_seen,
                    scan_idx, num_urls_before_current_scan >>
    /\ UNCHANGED << dlvars, runvars >>

\* `if self.driver:` of _quit_driver
QuitCheck(t) ==
    /\ pc[t] = "quit_check"
    /\ pc' = [pc EXCEPT ![t] = IF driver # None THEN "quit_call" ELSE "quit_done"]
    /\ UNCHANGED << histvars, winvars, fnvars, guivars, config, driver, sessions, next_session, scraped_data,
                    stop_scraping_flag, scroll_count, no_new_urls_consecutive_scrolls,
                    urls_found_set, last_height, discovery_end, scraping_successful,
                    feed_mode, feed_first_seen,
                    scan_idx, num_urls_before_current_scan >>
    /\ UNCHANGED << dlvars, ctlvars >>

\* `self.driver.quit()`: self.driver is read again; on None the AttributeError is
\* not a WebDriverException and leaves _quit_driver through its finally.
QuitCall(t) ==
    /\ pc[t] = "quit_call"
    /\ IF driver = None
       THEN /\ pc' = [pc EXCEPT ![t] = "quit_raise"]
            /\ UNCHANGED sessions
       ELSE /\ sessions' = sessions \ {driver}
            /\ pc' = [pc EXCEPT ![t] = "quit_finally"]
    /\ UNCHANGED << histvars, winvars, fnvars, guivars, config, driver, next_session, scraped_data, stop_scraping_flag,
                    scroll_count, no_new_urls_consecutive_scrolls, urls_found_set,
                    last_height, discovery_end, scraping_successful, feed_mode,
                    feed_first_seen,
                    scan_idx, num_urls_before_current_scan >>
    /\ UNCHANGED << dlvars, ctlvars >>

\* `finally: self.driver = None`
QuitFinally(t) ==
    /\ pc[t] \in {"quit_finally", "quit_raise"}
    /\ driver' = None
    /\ pc' = [pc EXCEPT ![t] = IF pc[t] = "quit_finally" THEN "quit_done" ELSE "raised"]
    /\ UNCHANGED << histvars, winvars, fnvars, guivars, config, sessions, next_session, scraped_data, stop_scraping_flag,
                    scroll_count, no_new_urls_consecutive_scrolls, urls_found_set,
                    last_height, discovery_end, scraping_successful, feed_mode,
                    feed_first_seen,
                    scan_idx, num_urls_before_current_scan >>
    /\ UNCHANGED << dlvars, ctlvars >>

FrontEnd ==
    \/ StopScraping
    \/ QuitCheck("frontend")
    \/ QuitCall("frontend")
    \/ QuitFinally("frontend")

(* ------------------------ Download Orchestrator ------------------------ *)
Last(s) == s[Len(s)]

Statuses(data) == [i \in 1..Len(data) |-> data[i].status]

\* No reset at all.
ResetNone(data) == data

\* The reset loop without its `!= "D"` test.
ResetAll(data) ==
    [i \in 1..Len(data) |-> [data[i] EXCEPT !.status = "N"]]

\* A reset that replaces the record of every item not downloaded by a new one.
ResetRecords(data) ==
    [i \in 1..Len(data) |->
        IF data[i].status # "D" THEN ItemRecord(data[i].url, data[i].title) ELSE data[i]]

\* `for item in self.scraped_data: if item[...] != "D": item[...] = "N"`
ResetStatuses(data) ==
    [i \in 1..Len(data) |->
        IF data[i].status # "D" THEN [data[i] EXCEPT !.status = "N"] ELSE data[i]]

\* A filter that keeps every item.
PendingAll(data) == [i \in 1..Len(data) |-> i]

\* A filter that keeps only the items never attempted.
PendingNew(data) ==
    SelectSeq([i \in 1..Len(data) |-> i], LAMBDA i : data[i].status = "N")

RECURSIVE PendingFrom(_, _)
PendingFrom(data, i) ==
    IF i > Len(data)
    THEN << >>
    ELSE (IF data[i].status = "N" \/ data[i].status = "E" THEN << i >> ELSE << >>)
         \o PendingFrom(data, i + 1)

\* videos_to_download_in_this_attempt: the items with status "N" or "E", in
\* store order.
Pending(data) == PendingFrom(data, 1)

\* A pass loop that runs one pass more.
PassInRangeExtra(attempt, retries) == attempt < retries + 2

\* A pass loop that never retries.
PassInRangeOnce(attempt, retries) == attempt < 1

\* `for retry_attempt in range(self.config["download_retries"] + 1)`
PassInRange(attempt, retries) == attempt < retries + 1

\* `batch_folder_name`: batch_<n>_<timestamp to the second>
FolderName(n, t) == [num |-> n, ts |-> t]

\* A slice that is always batch_size long.
BatchLenFull == config.batch_size

\* len(batch_videos) for batch_videos = videos_to_download[i : i + batch_size]
BatchLen ==
    IF Len(videos_to_download) - batch_i < config.batch_size
    THEN Len(videos_to_download) - batch_i
    ELSE config.batch_size

\* video_data of the current round of the item loop, as an index into the store.
CurrentItem == videos_to_download[batch_i + item_pos + 1]

\* What subprocess.run(..., check=True, timeout=5 * download_delay) can do:
\* return, or raise CalledProcessError, FileNotFoundError, the built-in
\* TimeoutError (an OSError) or subprocess.TimeoutExpired.  With a timeout of
\* 0 the wait for the child raises TimeoutExpired at once.
RunOutcomes ==
    IF config.download_delay * 5 = 0
    THEN {"FileNotFoundError", "TimeoutExpired"}
    ELSE {"ok", "CalledProcessError", "FileNotFoundError", "TimeoutError", "TimeoutExpired"}

\* Error entries that do not tell a missing downloader from a failed item.
ErrorTextSame(outcome) == "item failed"

\* The entry an except clause appends: the item's url and title, and whether
\* the message is the downloader-missing one or a per-item failure (stderr,
\* "Download timed out." or the exception's text).  TimeoutExpired is not a
\* TimeoutError: it reaches `except Exception`.
ErrorText(outcome) ==
    IF outcome = "FileNotFoundError" THEN "Downloader not found" ELSE "item failed"

\* An entry that carries the url of no item.
DownloadErrorNoUrl(item, outcome) ==
    [url |-> NoHref, title |-> item.title, error |-> ErrorText(outcome)]

DownloadError(item, outcome) ==
    [url |-> item.url, title |-> item.title, error |-> ErrorText(outcome)]

\* A handler that marks every attempted item as downloaded.
OutcomeStatusDone(outcome) == "D"

\* The status the try/except sets for an outcome that sets one.
OutcomeStatus(outcome) == IF outcome = "ok" THEN "D" ELSE "E"

AllDownloaded(data) == \A i \in 1..Len(data) : data[i].status = "D"

\* Entry of _download_videos: the empty-store return, the error-list reset and
\* the status reset.
DownloadBegin ==
    /\ pc["worker"] = "dl_begin"
    /\ status0' = Statuses(scraped_data)
    /\ IF Len(scraped_data) = 0
       THEN /\ download_status' = "No videos to download."
            /\ pc' = [pc EXCEPT !["worker"] = "dl_return"]
            /\ UNCHANGED << scraped_data, download_errors, retry_attempt >>
       ELSE /\ download_status' = "Starting download process..."
            /\ download_errors' = << >>
            /\ scraped_data' = ResetStatuses(scraped_data)
            /\ retry_attempt' = 0
            /\ pc' = [pc EXCEPT !["worker"] = "dl_pass"]
    /\ UNCHANGED << histvars, winvars, fnvars, guivars, config, driver, sessions, next_session, stop_scraping_flag, discvars, ctlvars,
                    videos_to_download, batch_i, current_batch_num, item_pos, folders,
                    clock, folder_calls, attempted, invocations, passes >>

\* Top of the pass loop: end of range, the cancellation check, the filter.
DownloadPass ==
    /\ pc["worker"] = "dl_pass"
    /\ IF ~PassInRange(retry_attempt, config.download_retries)
       THEN /\ pc' = [pc EXCEPT !["worker"] = "dl_completed"]
            /\ UNCHANGED << download_status, videos_to_download, current_batch_num,
                            batch_i, attempted, passes >>
       ELSE IF stop_scraping_flag
       THEN /\ download_status' = "Download Cancelled."
            /\ pc' = [pc EXCEPT !["worker"] = "dl_completed"]
            /\ UNCHANGED << videos_to_download, current_batch_num, batch_i,
                            attempted, passes >>
       ELSE /\ videos_to_download' = Pending(scraped_data)
            /\ IF Pending(scraped_data) = << >>
               THEN /\ pc' = [pc EXCEPT !["worker"] = "dl_completed"]
                    /\ UNCHANGED << current_batch_num, batch_i, attempted, passes >>
               ELSE /\ current_batch_num' = 1
                    /\ batch_i' = 0
                    /\ attempted' = << >>
                    /\ passes' = passes + 1
                    /\ pc' = [pc EXCEPT !["worker"] = "dl_batch"]
            /\ UNCHANGED download_status
    /\ UNCHANGED << histvars, winvars, fnvars, guivars, config, driver, sessions, next_session, scraped_data,
                    stop_scraping_flag, discvars, ctlvars, download_errors, retry_attempt,
                    item_pos, folders, clock, folder_calls, invocations, status0 >>

\* Top of the batch loop: end of range, the cancellation check, os.makedirs.
DownloadBatch ==
    /\ pc["worker"] = "dl_batch"
    /\ IF batch_i >= Len(videos_to_download)
       THEN /\ pc' = [pc EXCEPT !["worker"] = "dl_pass_end"]
            /\ UNCHANGED << download_status, folders, folder_calls, item_pos >>
       ELSE IF stop_scraping_flag
       THEN /\ download_status' = "Download Cancelled."
            /\ pc' = [pc EXCEPT !["worker"] = "dl_pass_end"]
            /\ UNCHANGED << folders, folder_calls, item_pos >>
       ELSE /\ folders' = folders \cup {FolderName(current_batch_num, clock)}
            /\ folder_calls' = Append(folder_calls,
                                      [attempt |-> retry_attempt,
                                       name |-> FolderName(current_batch_num, clock)])
            /\ download_status' = "Downloading batch"
            /\ item_pos' = 0
            /\ pc' = [pc EXCEPT !["worker"] = "dl_item"]
    /\ UNCHANGED << histvars, winvars, fnvars, guivars, config, driver, sessions, next_session, scraped_data,
                    stop_scraping_flag, discvars, ctlvars, download_errors, retry_attempt,
                    videos_to_download, batch_i, current_batch_num, clock,
                    attempted, invocations, passes, status0 >>

\* An item loop without the cancellation check.
DownloadItemNoCheck ==
    /\ pc["worker"] = "dl_item"
    /\ IF item_pos >= BatchLen
       THEN /\ pc' = [pc EXCEPT !["worker"] = "dl_batch_end"]
            /\ UNCHANGED << download_status, attempted, invocations >>
       ELSE /\ download_status' = "Downloading item"
            /\ attempted' = Append(attempted, CurrentItem)
            /\ invocations' = invocations + 1
            /\ pc' = [pc EXCEPT !["worker"] = "dl_run"]
    /\ UNCHANGED << histvars, winvars, fnvars, guivars, config, driver, sessions, next_session, scraped_data,
                    stop_scraping_flag, discvars, ctlvars, download_errors, retry_attempt,
                    videos_to_download, batch_i, current_batch_num, item_pos, folders,
                    clock, folder_calls, passes, status0 >>

\* Top of the item loop: end of batch, the cancellation check, and the start
\* of the downloader.
\* The items by target folder, with item i started for folder f.
Targeted(items, f, i) ==
    [g \in DOMAIN items \cup {f} |->
        IF g = f
        THEN (IF f \in DOMAIN items THEN items[f] ELSE {}) \cup {i}
        ELSE items[g]]

DownloadItem ==
    /\ pc["worker"] = "dl_item"
    /\ IF item_pos >= BatchLen \/ stop_scraping_flag
       THEN /\ pc' = [pc EXCEPT !["worker"] = "dl_batch_end"]
            /\ UNCHANGED << download_status, attempted, invocations, folder_items >>
       ELSE /\ download_status' = "Downloading item"
            /\ attempted' = Append(attempted, CurrentItem)
            /\ invocations' = invocations + 1
            /\ folder_items' = Targeted(folder_items, Last(folder_calls).name, CurrentItem)
            /\ pc' = [pc EXCEPT !["worker"] = "dl_run"]
    /\ UNCHANGED << discarded, iteration_base, zero_run, winvars, fnvars, guivars, config, driver, sessions, next_session, scraped_data,
                    stop_scraping_flag, discvars, ctlvars, download_errors, retry_attempt,
                    videos_to_download, batch_i, current_batch_num, item_pos, folders,
                    clock, folder_calls, passes, status0 >>

\* `if download_delay > 0 and not flag: time.sleep(random.randint(1, download_delay))`
DownloadDelay(flag) ==
    IF config.download_delay > 0 /\ ~flag
    THEN \E dl_delay \in 1..config.download_delay : clock' = clock + dl_delay
    ELSE UNCHANGED clock

\* The downloader returns or raises; the handler; the delay before the next item.
DownloadRun ==
    /\ pc["worker"] = "dl_run"
    /\ \E outcome \in RunOutcomes :
         IF outcome = "FileNotFoundError"
         THEN /\ download_status' = "Error: Downloader not found. Download halted."
              /\ download_errors' =
                    Append(download_errors, DownloadError(scraped_data[CurrentItem], outcome))
              /\ stop_scraping_flag' = TRUE
              /\ pc' = [pc EXCEPT !["worker"] = "dl_batch_end"]
              /\ UNCHANGED << scraped_data, item_pos, clock >>
         ELSE /\ scraped_data' =
                    [scraped_data EXCEPT ![CurrentItem].status = OutcomeStatus(outcome)]
              /\ download_errors' =
                    IF outcome = "ok"
                    THEN download_errors
                    ELSE Append(download_errors,
                                DownloadError(scraped_data[CurrentItem], outcome))
              /\ DownloadDelay(stop_scraping_flag)
              /\ item_pos' = item_pos + 1
              /\ pc' = [pc EXCEPT !["worker"] = "dl_item"]
              /\ UNCHANGED << download_status, stop_scraping_flag >>
    /\ UNCHANGED << histvars, winvars, fnvars, guivars, config, driver, sessions, next_session, discvars, ctlvars, retry_attempt,
                    videos_to_download, batch_i, current_batch_num, folders,
                    folder_calls, attempted, invocations, passes, status0 >>

\* After the item loop: `current_batch_num += 1` and the cancellation check.
DownloadBatchEnd ==
    /\ pc["worker"] = "dl_batch_end"
    /\ current_batch_num' = current_batch_num + 1
    /\ IF stop_scraping_flag
       THEN /\ pc' = [pc EXCEPT !["worker"] = "dl_pass_end"]
            /\ UNCHANGED batch_i
       ELSE /\ batch_i' = batch_i + config.batch_size
            /\ pc' = [pc EXCEPT !["worker"] = "dl_batch"]
    /\ UNCHANGED << histvars, winvars, fnvars, guivars, config, driver, sessions, next_session, scraped_data,
                    stop_scraping_flag, discvars, ctlvars, download_errors, retry_attempt,
                    videos_to_download, item_pos, folders, clock, download_status,
                    folder_calls, attempted, invocations, passes, status0 >>

\* After the batch loop: the cancellation check, the all-downloaded check and
\* the sleep before the next pass.
DownloadPassEnd ==
    /\ pc["worker"] = "dl_pass_end"
    /\ IF stop_scraping_flag \/ AllDownloaded(scraped_data)
       THEN /\ pc' = [pc EXCEPT !["worker"] = "dl_completed"]
            /\ UNCHANGED << retry_attempt, clock >>
       ELSE /\ clock' = IF retry_attempt < config.download_retries
                        THEN clock + config.download_delay * 2
                        ELSE clock
            /\ retry_attempt' = retry_attempt + 1
            /\ pc' = [pc EXCEPT !["worker"] = "dl_pass"]
    /\ UNCHANGED << histvars, winvars, fnvars, guivars, config, driver, sessions, next_session, scraped_data,
                    stop_scraping_flag, discvars, ctlvars, download_errors, videos_to_download,
                    batch_i, current_batch_num, item_pos, folders, download_status,
                    folder_calls, attempted, invocations, passes, status0 >>

\* `self.status_callback("Download completed.")`
DownloadCompleted ==
    /\ pc["worker"] = "dl_completed"
    /\ download_status' = "Download completed."
    /\ pc' = [pc EXCEPT !["worker"] = "dl_return"]
    /\ UNCHANGED << histvars, winvars, fnvars, guivars, config, driver, sessions, next_session, scraped_data,
                    stop_scraping_flag, discvars, ctlvars, download_errors, retry_attempt,
                    videos_to_download, batch_i, current_batch_num, item_pos, folders,
                    clock, folder_calls, attempted, invocations, passes, status0 >>

Download ==
    \/ DownloadBegin
    \/ DownloadPass
    \/ DownloadBatch
    \/ DownloadItem
    \/ DownloadRun
    \/ DownloadBatchEnd
    \/ DownloadPassEnd
    \/ DownloadCompleted

(* -------------------------- _initialize_webdriver ---------------------- *)
\* The handle of the one context a new session starts with.
FirstHandle == 1

\* Largest handle the browser gives a context.
MaxHandles == 3

\* ChromeDriverManager().install() and webdriver.Chrome(...): a new session
\* with one context, or an exception with self.driver left None.
InitCreate ==
    /\ pc["worker"] = "init_create"
    /\ \/ /\ driver' = next_session
          /\ sessions' = sessions \cup {next_session}
          /\ next_session' = next_session + 1
          /\ window_handles' = {FirstHandle}
          /\ current_window' = FirstHandle
          /\ next_handle' = FirstHandle + 1
          /\ pc' = [pc EXCEPT !["worker"] = "init_timeout"]
       \/ /\ driver' = None
          /\ pc' = [pc EXCEPT !["worker"] = "init_raised"]
          /\ UNCHANGED << sessions, next_session, window_handles, current_window,
                          next_handle >>
    /\ UNCHANGED << histvars, original_window_handle, fnvars, guivars, config, scraped_data, stop_scraping_flag, discvars, dlvars, ctlvars >>

\* self.driver.set_page_load_timeout(30); on WebDriverException self.driver is
\* set to None and the exception is raised again, the session left as it is.
InitTimeout ==
    /\ pc["worker"] = "init_timeout"
    /\ \E ok \in DriverCallResults :
         IF ok
         THEN /\ pc' = [pc EXCEPT !["worker"] = "init_done"]
              /\ UNCHANGED driver
         ELSE /\ driver' = None
              /\ pc' = [pc EXCEPT !["worker"] = "init_raised"]
    /\ UNCHANGED << histvars, winvars, fnvars, guivars, config, sessions, next_session, scraped_data, stop_scraping_flag,
                    discvars, dlvars, ctlvars >>

(* --------------------------- Pipeline Controller ----------------------- *)
\* Top of `for retry_attempt in range(download_retries + 1)` of
\* run_full_process: end of range, the cancellation check, the call of
\* _initialize_webdriver.
RunLoop ==
    /\ pc["worker"] = "run_loop"
    /\ IF ~PassInRange(scrape_attempt, config.download_retries) \/ stop_scraping_flag
       THEN /\ pc' = [pc EXCEPT !["worker"] = "run_check"]
            /\ UNCHANGED worker_ret
       ELSE /\ worker_ret' = "run"
            /\ pc' = [pc EXCEPT !["worker"] = "init_create"]
    /\ UNCHANGED << histvars, winvars, fnvars, guivars, config, driver, sessions, next_session, scraped_data,
                    stop_scraping_flag, discvars, dlvars, scrape_attempt, run_next,
                    desc_i, description_successful, results_saved, tables, stats_shown,
                    phases, cancel_phase >>

\* _initialize_webdriver returned or raised in run_full_process: the
\* `except Exception`, the `if not self.driver: continue`, or the call of
\* _scrape_shorts_data_phase.
RunInitDone ==
    /\ pc["worker"] \in {"init_done", "init_raised"}
    /\ worker_ret = "run"
    /\ IF pc["worker"] = "init_raised" \/ driver = None
       THEN /\ run_next' = "continue"
            /\ pc' = [pc EXCEPT !["worker"] = "run_finally"]
            /\ UNCHANGED phases
       ELSE /\ phases' = Append(phases, "Discovery")
            /\ pc' = [pc EXCEPT !["worker"] = "scrape_begin"]
            /\ UNCHANGED run_next
    /\ UNCHANGED << histvars, winvars, fnvars, guivars, config, driver, sessions, next_session, scraped_data,
                    stop_scraping_flag, discvars, dlvars, scrape_attempt, worker_ret,
                    desc_i, description_successful, results_saved, tables, stats_shown,
                    cancel_phase >>

\* A controller that empties the store after a failed attempt.
RunScrapeReturnDropsStore ==
    /\ pc["worker"] = "scrape_return"
    /\ run_next' = IF scraping_successful THEN "break" ELSE "continue"
    /\ scraped_data' = IF scraping_successful THEN scraped_data ELSE << >>
    /\ urls_found_set' = {}
    /\ last_height' = 1
    /\ num_urls_before_current_scan' = 0
    /\ scan_idx' = 0
    /\ pc' = [pc EXCEPT !["worker"] = "run_finally"]
    /\ UNCHANGED << histvars, winvars, fnvars, guivars, config, driver, sessions, next_session,
                    stop_scraping_flag, scroll_count, no_new_urls_consecutive_scrolls,
                    discovery_end, scraping_successful, feed_mode, feed_first_seen,
                    dlvars, scrape_attempt, worker_ret, desc_i, description_successful,
                    results_saved, tables, stats_shown, phases, cancel_phase >>

\* A controller that goes round again after a successful attempt that found
\* nothing.
RunScrapeReturnRetryEmpty ==
    /\ pc["worker"] = "scrape_return"
    /\ run_next' = IF scraping_successful /\ Len(scraped_data) > 0
                   THEN "break" ELSE "continue"
    /\ urls_found_set' = {}
    /\ last_height' = 1
    /\ num_urls_before_current_scan' = 0
    /\ scan_idx' = 0
    /\ pc' = [pc EXCEPT !["worker"] = "run_finally"]
    /\ UNCHANGED << histvars, winvars, fnvars, guivars, config, driver, sessions, next_session, scraped_data,
                    stop_scraping_flag, scroll_count, no_new_urls_consecutive_scrolls,
                    discovery_end, scraping_successful, feed_mode, feed_first_seen,
                    dlvars, scrape_attempt, worker_ret, desc_i, description_successful,
                    results_saved, tables, stats_shown, phases, cancel_phase >>

\* `scraping_successful = self._scrape_shorts_data_phase()`: break on success,
\* sleep and go round again otherwise.  The locals of the call are gone.
RunScrapeReturn ==
    /\ pc["worker"] = "scrape_return"
    /\ run_next' = IF scraping_successful THEN "break" ELSE "continue"
    /\ urls_found_set' = {}
    /\ last_height' = 1
    /\ num_urls_before_current_scan' = 0
    /\ scan_idx' = 0
    /\ pc' = [pc EXCEPT !["worker"] = "run_finally"]
    /\ UNCHANGED << histvars, winvars, fnvars, guivars, config, driver, sessions, next_session, scraped_data,
                    stop_scraping_flag, scroll_count, no_new_urls_consecutive_scrolls,
                    discovery_end, scraping_successful, feed_mode, feed_first_seen,
                    dlvars, scrape_attempt, worker_ret, desc_i, description_successful,
                    results_saved, tables, stats_shown, phases, cancel_phase >>

\* `finally: if self.driver: self._quit_driver()`
RunFinally ==
    /\ pc["worker"] = "run_finally"
    /\ pc' = [pc EXCEPT !["worker"] =
                 IF driver # None THEN "quit_check" ELSE "run_after_finally"]
    /\ UNCHANGED << histvars, winvars, fnvars, guivars, config, driver, sessions, next_session, scraped_data,
                    stop_scraping_flag, discvars, dlvars, ctlvars >>

\* The worker's _quit_driver returned to its caller: the finally clause of
\* run_full_process, or the end of _get_descriptions_phase (`return True`).
QuitReturn ==
    /\ pc["worker"] = "quit_done"
    /\ IF worker_ret = "run"
       THEN /\ pc' = [pc EXCEPT !["worker"] = "run_after_finally"]
            /\ UNCHANGED description_successful
       ELSE /\ description_successful' = TRUE
            /\ pc' = [pc EXCEPT !["worker"] = "desc_return"]
    /\ UNCHANGED << histvars, winvars, fnvars, guivars, config, driver, sessions, next_session, scraped_data,
                    stop_scraping_flag, discvars, dlvars, scrape_attempt, run_next,
                    worker_ret, desc_i, results_saved, tables, stats_shown, phases,
                    cancel_phase >>

\* The try statement is left: out of the loop, or on to the next attempt.
RunAfterFinally ==
    /\ pc["worker"] = "run_after_finally"
    /\ IF run_next = "break"
       THEN /\ pc' = [pc EXCEPT !["worker"] = "run_check"]
            /\ UNCHANGED scrape_attempt
       ELSE /\ scrape_attempt' = scrape_attempt + 1
            /\ pc' = [pc EXCEPT !["worker"] = "run_loop"]
    /\ UNCHANGED << histvars, winvars, fnvars, guivars, config, driver, sessions, next_session, scraped_data,
                    stop_scraping_flag, discvars, dlvars, run_next, worker_ret, desc_i,
                    description_successful, results_saved, tables, stats_shown, phases,
                    cancel_phase >>

\* A controller that goes on to Enrichment whatever Discovery returned.
RunCheckNoTest ==
    /\ pc["worker"] = "run_check"
    /\ phases' = Append(phases, "Enrichment")
    /\ pc' = [pc EXCEPT !["worker"] = "desc_begin"]
    /\ UNCHANGED << histvars, winvars, fnvars, guivars, config, driver, sessions, next_session, scraped_data,
                    stop_scraping_flag, discvars, dlvars, scrape_attempt, run_next,
                    worker_ret, desc_i, description_successful, results_saved, tables,
                    stats_shown, cancel_phase >>

\* `if not scraping_successful or flag: _display_final_stats(); return`, else
\* the call of _get_descriptions_phase.
RunCheck ==
    /\ pc["worker"] = "run_check"
    /\ IF ~scraping_successful \/ stop_scraping_flag
       THEN /\ stats_shown' = stats_shown + 1
            /\ pc' = [pc EXCEPT !["worker"] = "exit"]
            /\ UNCHANGED phases
       ELSE /\ phases' = Append(phases, "Enrichment")
            /\ pc' = [pc EXCEPT !["worker"] = "desc_begin"]
            /\ UNCHANGED stats_shown
    /\ UNCHANGED << histvars, winvars, fnvars, guivars, config, driver, sessions, next_session, scraped_data,
                    stop_scraping_flag, discvars, dlvars, scrape_attempt, run_next,
                    worker_ret, desc_i, description_successful, results_saved, tables,
                    cancel_phase >>

\* The test after Enrichment without the flag.
DescReturnNoFlag ==
    /\ pc["worker"] = "desc_return"
    /\ IF ~description_successful
       THEN /\ stats_shown' = stats_shown + 1
            /\ pc' = [pc EXCEPT !["worker"] = "exit"]
            /\ UNCHANGED phases
       ELSE /\ phases' = IF Len(scraped_data) > 0 THEN Append(phases, "Download") ELSE phases
            /\ pc' = [pc EXCEPT !["worker"] =
                         IF Len(scraped_data) > 0 THEN "dl_begin" ELSE "dl_return"]
            /\ UNCHANGED stats_shown
    /\ UNCHANGED << histvars, winvars, fnvars, guivars, config, driver, sessions, next_session, scraped_data,
                    stop_scraping_flag, discvars, dlvars, scrape_attempt, run_next,
                    worker_ret, desc_i, description_successful, results_saved, tables,
                    cancel_phase >>

\* _get_descriptions_phase returned: `if not description_successful or flag:
\* _display_final_stats(); return`, else the call of _download_videos.
DescReturn ==
    /\ pc["worker"] = "desc_return"
    /\ IF ~description_successful \/ stop_scraping_flag
       THEN /\ stats_shown' = stats_shown + 1
            /\ pc' = [pc EXCEPT !["worker"] = "exit"]
            /\ UNCHANGED phases
       ELSE /\ phases' = IF Len(scraped_data) > 0 THEN Append(phases, "Download") ELSE phases
            /\ pc' = [pc EXCEPT !["worker"] =
                         IF Len(scraped_data) > 0 THEN "dl_begin" ELSE "dl_return"]
            /\ UNCHANGED stats_shown
    /\ UNCHANGED << histvars, winvars, fnvars, guivars, config, driver, sessions, next_session, scraped_data,
                    stop_scraping_flag, discvars, dlvars, scrape_attempt, run_next,
                    worker_ret, desc_i, description_successful, results_saved, tables,
                    cancel_phase >>

\* Batches of _save_final_results: the store cut into slices of batch_size.
RECURSIVE SaveBatches(_, _, _)
SaveBatches(data, size, i) ==
    IF i >= Len(data)
    THEN << >>
    ELSE << SubSeq(data, i + 1, IF i + size < Len(data) THEN i + size ELSE Len(data)) >>
         \o SaveBatches(data, size, i + size)

\* The rows of a workbook: url and status of each item of the batch.
Rows(batch) == [k \in 1..Len(batch) |-> [url |-> batch[k].url, status |-> batch[k].status]]

\* _save_final_results and _display_final_stats after the download: a new
\* batch_<n>_<timestamp> folder and a workbook in it for every slice.
RunSave ==
    /\ pc["worker"] = "dl_return"
    /\ LET batches == SaveBatches(scraped_data, config.batch_size, 0)
       IN /\ folders' = folders \cup { FolderName(n, clock) : n \in 1..Len(batches) }
          /\ tables' = [f \in DOMAIN tables \cup { FolderName(n, clock) : n \in 1..Len(batches) } |->
                          IF \E n \in 1..Len(batches) : f = FolderName(n, clock)
                          THEN Rows(batches[f.num])
                          ELSE tables[f]]
    /\ results_saved' = TRUE
    /\ stats_shown' = stats_shown + 1
    /\ pc' = [pc EXCEPT !["worker"] = "exit"]
    /\ UNCHANGED << histvars, winvars, fnvars, guivars, config, driver, sessions, next_session, scraped_data,
                    stop_scraping_flag, discvars, download_errors, retry_attempt,
                    videos_to_download, batch_i, current_batch_num, item_pos, clock,
                    download_status, folder_calls, attempted, invocations, passes,
                    status0, scrape_attempt, run_next, worker_ret, desc_i,
                    description_successful, phases, cancel_phase >>

(* ------------------------------ Enrichment ----------------------------- *)
\* Entry of _get_descriptions_phase: the empty-store return, or the call of
\* _initialize_webdriver.
DescBegin ==
    /\ pc["worker"] = "desc_begin"
    /\ IF Len(scraped_data) = 0
       THEN /\ description_successful' = FALSE
            /\ pc' = [pc EXCEPT !["worker"] = "desc_return"]
            /\ UNCHANGED worker_ret
       ELSE /\ worker_ret' = "desc"
            /\ pc' = [pc EXCEPT !["worker"] = "init_create"]
            /\ UNCHANGED description_successful
    /\ UNCHANGED << histvars, winvars, fnvars, guivars, config, driver, sessions, next_session, scraped_data,
                    stop_scraping_flag, discvars, dlvars, scrape_attempt, run_next,
                    desc_i, results_saved, tables, stats_shown, phases, cancel_phase >>

\* _initialize_webdriver returned or raised in _get_descriptions_phase.
DescInitDone ==
    /\ pc["worker"] \in {"init_done", "init_raised"}
    /\ worker_ret = "desc"
    /\ IF pc["worker"] = "init_raised" \/ driver = None
       THEN /\ description_successful' = FALSE
            /\ pc' = [pc EXCEPT !["worker"] = "desc_return"]
       ELSE /\ pc' = [pc EXCEPT !["worker"] = "desc_handle"]
            /\ UNCHANGED description_successful
    /\ UNCHANGED << histvars, winvars, fnvars, guivars, config, driver, sessions, next_session, scraped_data,
                    stop_scraping_flag, discvars, dlvars, scrape_attempt, run_next,
                    worker_ret, desc_i, results_saved, tables, stats_shown, phases,
                    cancel_phase >>

\* `original_window_handle = self.driver.current_window_handle`, outside any
\* try: an exception leaves run_full_process.
DescHandle ==
    /\ pc["worker"] = "desc_handle"
    /\ \E ok \in DriverCallResults :
         IF ok
         THEN /\ desc_i' = 0
              /\ original_window_handle' = current_window
              /\ pc' = [pc EXCEPT !["worker"] = "desc_item"]
         ELSE /\ pc' = [pc EXCEPT !["worker"] = "raised"]
              /\ UNCHANGED << desc_i, original_window_handle >>
    /\ UNCHANGED << histvars, window_handles, current_window, next_handle, fnvars, guivars, config, driver, sessions, next_session, scraped_data,
                    stop_scraping_flag, discvars, dlvars, scrape_attempt, run_next,
                    worker_ret, description_successful, results_saved, tables,
                    stats_shown, phases, cancel_phase >>

\* Top of the item loop: the end of the store (then _quit_driver and
\* `return True`), the cancellation check with its self.driver.quit(), or the
\* visit of the next item.
DescItem ==
    /\ pc["worker"] = "desc_item"
    /\ IF stop_scraping_flag /\ desc_i < Len(scraped_data)
       THEN IF driver = None
            THEN /\ pc' = [pc EXCEPT !["worker"] = "raised"]
                 /\ UNCHANGED << sessions, description_successful >>
            ELSE /\ sessions' = sessions \ {driver}
                 /\ description_successful' = FALSE
                 /\ pc' = [pc EXCEPT !["worker"] = "desc_return"]
       ELSE /\ pc' = [pc EXCEPT !["worker"] =
                         IF desc_i < Len(scraped_data) THEN "desc_visit" ELSE "quit_check"]
            /\ UNCHANGED << sessions, description_successful >>
    /\ UNCHANGED << histvars, winvars, fnvars, guivars, config, driver, next_session, scraped_data, stop_scraping_flag,
                    discvars, dlvars, scrape_attempt, run_next, worker_ret, desc_i,
                    results_saved, tables, stats_shown, phases, cancel_phase >>

\* The contexts the page of a visit opens: none, or new tabs or windows up to
\* handle MaxHandles. The session's commands stay with the context they went to.
OpenedBy(visit) == { next_handle + k : k \in 0..(visit - 1) }

\* A clean-up that closes the additional contexts and leaves the session on
\* the last one it closed.
AfterCleanUpNoReturn(handles, original, focus) ==
    IF Cardinality(handles) > 1
    THEN [handles |-> { h \in handles : h = original },
          focus |-> CHOOSE h \in handles : h # original]
    ELSE [handles |-> handles, focus |-> focus]

\* `if len(window_handles) > 1:` every handle other than the original one is
\* switched to and closed, then the original one is switched to.
AfterCleanUp(handles, original, focus) ==
    IF Cardinality(handles) > 1
    THEN [handles |-> { h \in handles : h = original }, focus |-> original]
    ELSE [handles |-> handles, focus |-> focus]

\* `item["Description"] = self._get_video_description(url)`: the text found,
\* or "" when none is found or any driver call fails.
DescVisit ==
    /\ pc["worker"] = "desc_visit"
    /\ \E ok \in DriverCallResults : \E text \in {"", "text"} :
         scraped_data' = [scraped_data EXCEPT ![desc_i + 1].description =
                                                  IF ok THEN text ELSE ""]
    /\ \E visit \in 0..(MaxHandles + 1 - next_handle) :
         /\ window_handles' = window_handles \cup OpenedBy(visit)
         /\ next_handle' = next_handle + visit
    /\ pc' = [pc EXCEPT !["worker"] = "desc_windows"]
    /\ UNCHANGED << histvars, current_window, original_window_handle, fnvars, guivars,
                    config, driver, sessions, next_session, stop_scraping_flag,
                    discvars, dlvars, ctlvars >>

\* `if len(self.driver.window_handles) > 1: ...` and the sleep, outside any
\* try: an exception leaves run_full_process, with any of the additional
\* contexts closed and the session on any context.
DescWindows ==
    /\ pc["worker"] = "desc_windows"
    /\ \E ok \in DriverCallResults :
         IF ok
         THEN LET after == AfterCleanUp(window_handles, original_window_handle,
                                        current_window)
              IN /\ window_handles' = after.handles
                 /\ current_window' = after.focus
                 /\ desc_i' = desc_i + 1
                 /\ pc' = [pc EXCEPT !["worker"] = "desc_item"]
         ELSE /\ \E closed \in SUBSET (window_handles \ {original_window_handle}) :
                   /\ window_handles' = window_handles \ closed
                   /\ current_window' \in closed \cup {current_window}
              /\ pc' = [pc EXCEPT !["worker"] = "raised"]
              /\ UNCHANGED desc_i
    /\ UNCHANGED << histvars, original_window_handle, next_handle, fnvars, guivars,
                    config, driver, sessions, next_session, scraped_data,
                    stop_scraping_flag, discvars, dlvars, scrape_attempt, run_next,
                    worker_ret, description_successful, results_saved, tables,
                    stats_shown, phases, cancel_phase >>

Enrichment ==
    \/ DescBegin
    \/ DescInitDone
    \/ DescHandle
    \/ DescItem
    \/ DescVisit
    \/ DescWindows

Controller ==
    \/ RunLoop
    \/ InitCreate
    \/ InitTimeout
    \/ RunInitDone
    \/ RunScrapeReturn
    \/ RunFinally
    \/ QuitCheck("worker")
    \/ QuitCall("worker")
    \/ QuitFinally("worker")
    \/ QuitReturn
    \/ RunAfterFinally
    \/ RunCheck
    \/ DescReturn
    \/ RunSave

(* ----------------------- Discovery on its own -------------------------- *)
\* The configurations _start_scraping accepts.
Configs ==
    [target_video_count : 0..MaxTarget, batch_size : 1..MaxBatch,
     download_retries : 0..MaxRetries, download_delay : DownloadDelays]

\* _download_videos has not been entered.
DownloadIdle ==
    /\ download_errors = << >>
    /\ discarded = 0
    /\ iteration_base = 0
    /\ zero_run = 0
    /\ folder_items = << >>
    /\ window_handles = {FirstHandle}
    /\ current_window = FirstHandle
    /\ original_window_handle = None
    /\ next_handle = FirstHandle + 1
    /\ sanitized_title = << >>
    /\ hash_seed = 0
    /\ output_names = << >>
    /\ retry_attempt = 0
    /\ videos_to_download = << >>
    /\ batch_i = 0
    /\ current_batch_num = 1
    /\ item_pos = 0
    /\ folders = {}
    /\ clock = 0
    /\ download_status = ""
    /\ folder_calls = << >>
    /\ attempted = << >>
    /\ invocations = 0
    /\ passes = 0
    /\ status0 = << >>

(* --------------------- the input fields of the window ------------------ *)
\* Texts of a field bound to a tk.IntVar: not a number, integers, a decimal.
IntTexts == {"abc", "-1", "0", "1", "1.5"}

\* IntVar.get(): the integer, the decimal cut to an integer (getdouble), or
\* the TclError of a text that is no number.
IntVarGet(text) ==
    CASE text = "-1" -> [raised |-> FALSE, value |-> 0 - 1]
      [] text = "0" -> [raised |-> FALSE, value |-> 0]
      [] text = "1" -> [raised |-> FALSE, value |-> 1]
      [] text = "1.5" -> [raised |-> FALSE, value |-> 1]
      [] OTHER -> [raised |-> TRUE, value |-> 0]

\* The text an integer is shown as in such a field.
IntText(n) == IF n = 0 THEN "0" ELSE "1"

\* Texts of the channel URL field, as sequences of characters.
UrlTexts ==
    { << >>, << " " >>, << "f", "t", "p" >>, << "h", "t", "t" >>,
      << "h", "t", "t", "p" >>, << " ", "h", "t", "t", "p", "s", " " >> }

\* str.strip on a string whose only white space is the space.
strip(s) ==
    LET inked == {k \in 1..Len(s) : s[k] # " "}
    IN IF inked = {} THEN << >>
       ELSE SubSeq(s, CHOOSE k \in inked : \A j \in inked : k <= j,
                      CHOOSE k \in inked : \A j \in inked : k >= j)

\* A test that every text passes.
startswithAny(s, prefix) == TRUE

\* str.startswith
startswith(s, prefix) ==
    Len(s) >= Len(prefix) /\ SubSeq(s, 1, Len(prefix)) = prefix

Forms ==
    [channel_url : UrlTexts, target_video_count : IntTexts, scroll_delay : IntTexts,
     download_delay : IntTexts, download_retries : IntTexts, batch_size : IntTexts]

\* A form that holds configuration c.
FormOf(c) ==
    [channel_url |-> << "h", "t", "t", "p" >>,
     target_video_count |-> IntText(c.target_video_count),
     scroll_delay |-> "1",
     download_delay |-> IntText(c.download_delay),
     download_retries |-> IntText(c.download_retries),
     batch_size |-> IntText(c.batch_size)]

\* The fields of the configuration the scraper reads.
ConfigOf(f) ==
    [target_video_count |-> IntVarGet(f.target_video_count).value,
     batch_size |-> IntVarGet(f.batch_size).value,
     download_retries |-> IntVarGet(f.download_retries).value,
     download_delay |-> IntVarGet(f.download_delay).value]

\* The input validation of _start_scraping, in the order of the code: the
\* message box of the first check that fails, "TclError" when IntVar.get()
\* raises it (it is no ValueError and leaves the handler), or "" when every
\* check passes.
InputError(f) ==
    CASE strip(f.channel_url) = << >> -> "YouTube Channel URL cannot be empty."
      [] ~startswith(strip(f.channel_url), << "h", "t", "t", "p" >>) ->
            "YouTube Channel URL is invalid."
      [] IntVarGet(f.target_video_count).raised -> "TclError"
      [] IntVarGet(f.target_video_count).value < 0 ->
            "Target Video Count must be a non-negative integer."
      [] IntVarGet(f.scroll_delay).raised -> "TclError"
      [] IntVarGet(f.scroll_delay).value <= 0 -> "Scroll Delay error"
      [] IntVarGet(f.download_delay).raised -> "TclError"
      [] IntVarGet(f.download_delay).value < 0 -> "Download Delay error"
      [] IntVarGet(f.download_retries).raised -> "TclError"
      [] IntVarGet(f.download_retries).value < 0 ->
            "Download Retries must be a non-negative integer."
      [] IntVarGet(f.batch_size).raised -> "TclError"
      [] IntVarGet(f.batch_size).value <= 0 ->
            "Download Batch Size must be a positive integer."
      [] OTHER -> ""

\* The configurations handed out, with that of scraper s added.
Configured(configs, s, c) ==
    [t \in DOMAIN configs \cup {s} |-> IF t = s THEN c ELSE configs[t]]

\* ScrapingApp after _start_scraping has started the first worker: Start is
\* disabled, Cancel is enabled and a completion check is scheduled.
GuiRunning ==
    /\ start_button = "disabled"
    /\ cancel_button = "normal"
    /\ scraper = 1
    /\ scraping_thread = 1
    /\ alive_threads = {1}
    /\ stop_flags = {}
    /\ pending_checks = 1
    /\ next_thread = 2
    /\ entries = FormOf(config)
    /\ dialog = ""
    /\ scraper_config = [s \in {1} |-> config]

\* run_full_process is in its first Discovery attempt.
ControllerAt(started) ==
    /\ scrape_attempt = 0
    /\ run_next = "continue"
    /\ worker_ret = "run"
    /\ desc_i = 0
    /\ description_successful = FALSE
    /\ results_saved = FALSE
    /\ tables = << >>
    /\ stats_shown = 0
    /\ phases = started
    /\ cancel_phase = ""

InitDiscovery ==
    /\ config \in { c \in Configs : /\ c.batch_size = 1
                                    /\ c.download_retries = 0
                                    /\ c.download_delay = 1 }
    /\ driver = 1
    /\ sessions = {1}
    /\ next_session = 2
    /\ scraped_data = << >>
    /\ stop_scraping_flag = FALSE
    /\ scroll_count = 0
    /\ no_new_urls_consecutive_scrolls = 0
    /\ urls_found_set = {}
    /\ last_height = 1
    /\ discovery_end = "Running"
    /\ scraping_successful = FALSE
    /\ feed_mode \in {"catalogue", "endless"}
    /\ feed_first_seen = << >>
    /\ num_urls_before_current_scan = 0
    /\ scan_idx = 0
    /\ DownloadIdle
    /\ ControllerAt(<< "Discovery" >>)
    /\ GuiRunning
    /\ pc = [t \in Threads |-> IF t = "worker" THEN "scrape_begin" ELSE "idle"]

Discovery ==
    \/ ScrapeBegin
    \/ ScrapeOpen
    \/ ScrapeLoop
    \/ ScrapeElement
    \/ ScrapeScanEnd
    \/ ScrapeHeight

NextDiscovery == Discovery

SpecDiscovery == InitDiscovery /\ [][NextDiscovery]_vars

(* ------------------- the Download Orchestrator on its own -------------- *)
\* The store Discovery builds from n shorts, with the given statuses.
StoreOf(st) ==
    [i \in 1..Len(st) |-> [ItemRecord(Href("abs", i), FeedTitle(i)) EXCEPT !.status = st[i]]]

\* Stores of at most NumUrls items whose statuses are drawn from S.
Stores(S) == { StoreOf(st) : st \in UNION { [1..n -> S] : n \in 0..NumUrls } }

\* _download_videos is about to be called on store `data`; the browser has
\* been closed.
DownloadEntry(data) ==
    /\ config \in { c \in Configs : c.target_video_count = 0 }
    /\ driver = None
    /\ sessions = {}
    /\ next_session = 2
    /\ scraped_data = data
    /\ stop_scraping_flag = FALSE
    /\ scroll_count = 1
    /\ no_new_urls_consecutive_scrolls = 0
    /\ urls_found_set = Range(StoreUrls(data))
    /\ last_height = 1
    /\ discovery_end = "NoMoreContent"
    /\ scraping_successful = TRUE
    /\ feed_mode = "catalogue"
    /\ feed_first_seen = StoreUrls(data)
    /\ num_urls_before_current_scan = 0
    /\ scan_idx = 0
    /\ DownloadIdle
    /\ ControllerAt(<< "Discovery", "Enrichment", "Download" >>)
    /\ GuiRunning
    /\ pc = [t \in Threads |-> IF t = "worker" THEN "dl_begin" ELSE "idle"]

\* The front end during the download: stop_scraping finds no browser to quit.
DownloadFrontEnd ==
    \/ StopScraping
    \/ QuitCheck("frontend")

\* _download_videos called on any store.
InitDownload == \E data \in Stores({"N", "D", "E"}) : DownloadEntry(data)

NextDownload == Download \/ DownloadFrontEnd

SpecDownload == InitDownload /\ [][NextDownload]_vars

\* _download_videos called as run_full_process calls it: on the non-empty
\* store a Discovery attempt has built, every status "N".
InitDownloadRun == \E data \in Stores({"N"}) \ {<< >>} : DownloadEntry(data)

NextDownloadRun == Download \/ DownloadFrontEnd

SpecDownloadRun == InitDownloadRun /\ [][NextDownloadRun]_vars

(* ------------------------------ the pipeline --------------------------- *)
\* A worker thread is about to call run_full_process on a new scraper; the
\* Cancel button is enabled.
InitPipeline ==
    /\ config \in { c \in Configs : /\ c.target_video_count = 1
                                    /\ c.batch_size = 1
                                    /\ c.download_retries <= 1
                                    /\ c.download_delay = 1 }
    /\ driver = None
    /\ sessions = {}
    /\ next_session = 1
    /\ scraped_data = << >>
    /\ stop_scraping_flag = FALSE
    /\ scroll_count = 0
    /\ no_new_urls_consecutive_scrolls = 0
    /\ urls_found_set = {}
    /\ last_height = 1
    /\ discovery_end = "Running"
    /\ scraping_successful = FALSE
    /\ feed_mode = "single"
    /\ feed_first_seen = << >>
    /\ num_urls_before_current_scan = 0
    /\ scan_idx = 0
    /\ DownloadIdle
    /\ ControllerAt(<< >>)
    /\ GuiRunning
    /\ pc = [t \in Threads |-> IF t = "worker" THEN "run_loop" ELSE "idle"]

NextPipeline == Controller \/ Discovery \/ Enrichment \/ Download \/ FrontEnd

SpecPipeline == InitPipeline /\ [][NextPipeline]_vars

(* ---------------------- properties of Discovery ----------------------- *)
DiscoveryReturned == pc["worker"] = "scrape_return"

\* C1: in every state of Discovery the urls of the records in the store are
\* pairwise distinct, and the seen-URL set is exactly the set of those urls.
C1_StoreUrlsDistinct ==
    /\ \A i, j \in 1..Len(scraped_data) :
          i # j => scraped_data[i].url # scraped_data[j].url
    /\ urls_found_set = Range(StoreUrls(scraped_data))

\* A later iteration consumed MaxElems elements and only one of them was new:
\* the others were repeats (or carried no href).
C1_Witness ==
    /\ pc["worker"] = "scrape_scan"
    /\ scroll_count >= 2
    /\ scan_idx = MaxElems
    /\ Len(scraped_data) = 2
    /\ num_urls_before_current_scan = 1

\* C6 (as amended): Discovery never performs more than StallLimit iterations
\* per discovered URL plus StallLimit more, so it ends for every feed that
\* offers finitely many URLs; and, not cancelled, it ends by target-reached,
\* height-stable, stall-limit or failure.
C6_IterationsBoundedByStore ==
    /\ scroll_count <= StallLimit * (Len(scraped_data) + 1)
    /\ DiscoveryReturned =>
          discovery_end \in {"TargetReached", "NoMoreContent", "StallLimit", "Failed"}

\* Discovery ran 2 * StallLimit iterations on one URL and ended by the stall limit.
C6_Witness ==
    /\ DiscoveryReturned
    /\ discovery_end = "StallLimit"
    /\ Len(scraped_data) = 1
    /\ scroll_count = 2 * StallLimit

\* C6 (as claimed): whatever the feed, Discovery has ended before iteration
\* IterationHorizon, the first iteration count that no feed of NumUrls shorts
\* reaches.
C6_BoundedForAnyFeed == scroll_count < IterationHorizon

\* C7: the stall counter never exceeds StallLimit, no iteration starts once it
\* has reached StallLimit, and a feed that has contributed no URL is left by
\* the end of iteration StallLimit even though the height keeps changing.
C7_StallLimitStops ==
    /\ no_new_urls_consecutive_scrolls <= StallLimit
    /\ pc["worker"] = "scrape_loop" => no_new_urls_consecutive_scrolls < StallLimit
    /\ Len(scraped_data) = 0 => scroll_count <= StallLimit
    /\ discovery_end = "StallLimit" =>
          DiscoveryReturned /\ no_new_urls_consecutive_scrolls = StallLimit

\* Ten iterations without any URL and with a changing height: stopped by the
\* stall limit at the end of iteration StallLimit.
C7_Witness ==
    /\ DiscoveryReturned
    /\ discovery_end = "StallLimit"
    /\ scraping_successful
    /\ scroll_count = StallLimit
    /\ Len(scraped_data) = 0

\* C8, the store: the store holds every short the feed has presented,
\* once each, in the order of first presentation.
StoreIsFirstSeenOrder == StoreUrls(scraped_data) = feed_first_seen

\* C8, the loop's decision after an iteration with target 0: it goes on to
\* another iteration only when the height changed; an iteration that added an
\* item and left the height unchanged ends by NoMoreContent, and one that added
\* an item and changed the height is followed by another iteration.
HeightDecides ==
    (pc["worker"] = "scrape_height" /\ config.target_video_count = 0
       /\ pc'["worker"] # "scrape_height") =>
        /\ pc'["worker"] = "scrape_loop" => last_height' # last_height
        /\ discovery_end' = "NoMoreContent" =>
              last_height' = last_height /\ scraping_successful'
        /\ (no_new_urls_consecutive_scrolls = 0 /\ discovery_end' # "Failed") =>
              IF last_height' = last_height
              THEN discovery_end' = "NoMoreContent" /\ scraping_successful'
              ELSE pc'["worker"] = "scrape_loop"

\* C8: with target 0, Discovery runs until the first iteration that leaves the
\* height unchanged, ends there by NoMoreContent with success, never by
\* target-reached, and the store holds every item seen once, in order of first
\* appearance.
C8_RunsUntilHeightStable ==
    /\ StoreIsFirstSeenOrder
    /\ [][/\ StoreIsFirstSeenOrder'
          /\ config.target_video_count = 0 => discovery_end' # "TargetReached"
          /\ HeightDecides]_vars

\* Two items in iteration 1, one more in iteration 2, height stable after it.
C8_Witness ==
    /\ config.target_video_count = 0
    /\ DiscoveryReturned
    /\ scraping_successful
    /\ discovery_end = "NoMoreContent"
    /\ scroll_count = 2
    /\ num_urls_before_current_scan = 2
    /\ Len(scraped_data) = 3

(* --------------- properties of the Download Orchestrator --------------- *)
DownloadReturned == pc["worker"] = "dl_return"

\* A pass is under way: between the filter and the end-of-pass checks.
InPass == pc["worker"] \in {"dl_batch", "dl_item", "dl_run", "dl_batch_end", "dl_pass_end"}

IsPrefix(s, t) == Len(s) <= Len(t) /\ \A k \in 1..Len(s) : s[k] = t[k]

\* C2: once an item's status is "D" it is "D" after every step of the
\* orchestrator and of the front end: the entry reset, every pass, every
\* failure, timeout, cancellation and downloader-missing event.
C2_DownloadedStays ==
    [][/\ Len(scraped_data') = Len(scraped_data)
       /\ \A i \in 1..Len(scraped_data) :
             scraped_data[i].status = "D" => scraped_data'[i].status = "D"]_vars

\* An item that was "D" on entry is "D" on return, after the reset, two
\* failures of another item, a retry pass and a cancellation.
C2_Witness ==
    /\ DownloadReturned
    /\ stop_scraping_flag
    /\ Len(scraped_data) = 2
    /\ status0[1] = "D"
    /\ scraped_data[1].status = "D"
    /\ Len(download_errors) >= 2
    /\ passes = 2

LegalStatusChanges == {<< "N", "D" >>, << "N", "E" >>, << "E", "D" >>}

C4_PassesAttemptPending ==
    /\ passes <= config.download_retries + 1
    /\ InPass =>
          /\ passes = retry_attempt + 1
          /\ videos_to_download # << >>
          /\ \A k, l \in 1..Len(videos_to_download) :
                k < l => videos_to_download[k] < videos_to_download[l]
          /\ IsPrefix(attempted, videos_to_download)
          /\ \A i \in 1..Len(scraped_data) :
                (\A k \in 1..Len(videos_to_download) : videos_to_download[k] # i)
                   => scraped_data[i].status = "D"
          /\ \A k \in (Len(attempted) + 1)..Len(videos_to_download) :
                scraped_data[videos_to_download[k]].status # "D"
    /\ (pc["worker"] = "dl_pass_end" /\ ~stop_scraping_flag) =>
          attempted = videos_to_download
    /\ (pc["worker"] = "dl_pass" /\ retry_attempt > 0) => ~AllDownloaded(scraped_data)

\* The retry pass of a two-item store ran to its end: it attempted the one
\* item that was pending, after the first pass attempted both.
C4_Witness ==
    /\ pc["worker"] = "dl_pass_end"
    /\ ~stop_scraping_flag
    /\ retry_attempt = 1
    /\ Len(scraped_data) = 2
    /\ status0 = << "N", "N" >>
    /\ invocations = 3
    /\ attempted = videos_to_download

\* C4 (as claimed): every pass has attempted exactly the items that were
\* pending at its start when it ends.
C4_EveryPassAttemptsAllPending ==
    pc["worker"] = "dl_pass_end" => attempted = videos_to_download

\* C5: the item of an invocation in flight is never "D", no item that was
\* "D" on entry is ever attempted, and on a store whose items are all "D"
\* the orchestrator makes no invocation and changes no status.
C5_DownloadedNeverInvoked ==
    /\ pc["worker"] = "dl_run" => scraped_data[Last(attempted)].status # "D"
    /\ pc["worker"] # "dl_begin" =>
          /\ \A k \in 1..Len(attempted) : status0[attempted[k]] # "D"
          /\ (\A i \in 1..Len(status0) : status0[i] = "D") =>
                invocations = 0 /\ Statuses(scraped_data) = status0

\* The orchestrator returned from a two-item store that was all "D".
C5_Witness ==
    /\ DownloadReturned
    /\ status0 = << "D", "D" >>
    /\ Statuses(scraped_data) = << "D", "D" >>
    /\ invocations = 0
    /\ download_status = "Download completed."

\* C9: when the orchestrator returns uncancelled with download_retries >= 1
\* and exactly one failure recorded, every item is "D", the failure is the
\* first pass's, the second pass invoked the downloader for the failed item
\* only, and each of the two passes created a batch folder of its own.
C9_RetryPassRecovers ==
    (/\ DownloadReturned
     /\ ~stop_scraping_flag
     /\ config.download_retries >= 1
     /\ Len(download_errors) = 1) =>
        /\ AllDownloaded(scraped_data)
        /\ passes = 2
        /\ invocations = Len(scraped_data) + 1
        /\ Len(attempted) = 1
        /\ scraped_data[attempted[1]].url = download_errors[1].url
        /\ \E k \in 1..Len(folder_calls) : folder_calls[k].attempt = 0
        /\ \E k \in 1..Len(folder_calls) : folder_calls[k].attempt = 1
        /\ \A k, l \in 1..Len(folder_calls) :
              (folder_calls[k].attempt = 0 /\ folder_calls[l].attempt = 1) =>
                 folder_calls[k].name # folder_calls[l].name

\* Item 2 of 2 failed on the first pass and was downloaded on the second.
C9_Witness ==
    /\ DownloadReturned
    /\ ~stop_scraping_flag
    /\ config.download_retries >= 1
    /\ Len(scraped_data) = 2
    /\ Len(download_errors) = 1
    /\ download_errors[1].url = scraped_data[2].url
    /\ AllDownloaded(scraped_data)
    /\ Cardinality(folders) >= 2

(* ---------------------- properties of the pipeline --------------------- *)
\* The worker thread has ended: run_full_process returned, or an exception
\* left it.
WorkerExited == pc["worker"] \in {"exit", "raised"}

\* C10: when stop_scraping set the flag while Discovery was running, the
\* Discovery attempt ends as Cancelled (not as an error, not as a success),
\* neither Enrichment nor Download is started, the store is a prefix of what
\* the feed presented, and no browser session is open once the worker has
\* exited.
C10_CancelDuringDiscovery ==
    cancel_phase = "Discovery" =>
       /\ WorkerPhase # "Discovery" => discovery_end = "Cancelled"
       /\ "Enrichment" \notin Range(phases)
       /\ "Download" \notin Range(phases)
       /\ IsPrefix(StoreUrls(scraped_data), feed_first_seen)
       /\ WorkerExited => sessions = {}

\* The number of Discovery attempts that have called _scrape_shorts_data_phase.
RECURSIVE CountOf(_, _)
CountOf(seq, x) ==
    IF seq = << >> THEN 0
    ELSE (IF seq[1] = x THEN 1 ELSE 0) + CountOf(Tail(seq), x)

\* This step is the call of the named phase.
Starts(phase) == Len(phases') = Len(phases) + 1 /\ Last(phases') = phase

\* C11 (as the code has it): a Discovery attempt is made only while attempts
\* are left (at most download_retries + 1 rounds of the loop), on the session
\* the same round has just created, and, when it is not the first one, only
\* after an attempt that returned Failed; no attempt follows one that
\* returned success (whatever the number of items) or Cancelled.  A round of
\* the loop starts exactly when attempts are left and the flag is not set.
C11_RetryStep ==
    /\ Starts("Discovery") =>
          /\ scrape_attempt <= config.download_retries
          /\ driver = next_session - 1
          /\ CountOf(phases', "Discovery") <= next_session - 1
          /\ CountOf(phases', "Discovery") <= scrape_attempt + 1
          /\ "Discovery" \in Range(phases) =>
                discovery_end = "Failed" /\ ~scraping_successful
    /\ (pc["worker"] = "run_loop" /\ pc'["worker"] # "run_loop") =>
          (pc'["worker"] = "init_create"
              <=> (scrape_attempt <= config.download_retries /\ ~stop_scraping_flag))

SuccessEnds == {"TargetReached", "NoMoreContent", "StallLimit"}

\* C12: a Discovery attempt that ends by target-reached, height-stable or
\* stall-limit returns success whatever the store holds, an empty store
\* included; the controller then leaves the retry loop (break) and no further
\* Discovery attempt is started.
C12_SuccessStep ==
    /\ (pc'["worker"] = "scrape_return" /\ discovery_end' \in SuccessEnds) =>
          scraping_successful'
    /\ (pc["worker"] = "scrape_return" /\ discovery_end \in SuccessEnds
          /\ pc'["worker"] # "scrape_return") => run_next' = "break"
    /\ (pc["worker"] = "run_after_finally" /\ discovery_end \in SuccessEnds
          /\ pc'["worker"] # "run_after_finally") =>
          pc'["worker"] = "run_check" /\ scraping_successful'
    /\ Starts("Discovery") => discovery_end \notin SuccessEnds

C13_FailurePersistsAndReports ==
    (pc["worker"] = "exit" /\ ~scraping_successful) =>
       /\ results_saved
       /\ stats_shown = 1
       /\ "Enrichment" \notin Range(phases)
       /\ "Download" \notin Range(phases)

\* C14 (as stated): no browser session is open when the controller is at the
\* top of the retry loop (about to begin a Discovery attempt), when it begins
\* Enrichment, while Download runs, or once the worker has exited (returned
\* or left by an exception).
C14_SessionsClosedBetweenPhases ==
    (\/ pc["worker"] \in {"run_loop", "run_check", "desc_begin", "desc_return"}
     \/ WorkerPhase = "Download"
     \/ WorkerExited)
       => sessions = {}

(* ------------------- properties of the download: abort ------------------ *)
\* The error list holds the entry the FileNotFoundError handler appends.
DownloaderMissing ==
    \E k \in 1..Len(download_errors) : download_errors[k].error = "Downloader not found"

MissingStatus == "Error: Downloader not found. Download halted."

\* C15: when the downloader is found missing, the handler reports the
\* downloader-missing status and appends the downloader-missing entry, and
\* leaves the item's status as it was (it is not marked "E"); from then on
\* there is no further invocation, batch folder or pass, no status changes,
\* and "Download Cancelled." is never reported.
C15_MissingStep ==
    /\ (download_status' = MissingStatus /\ pc["worker"] = "dl_run"
           /\ pc'["worker"] # "dl_run") =>
          /\ DownloaderMissing'
          /\ Last(download_errors').url = scraped_data[CurrentItem].url
          /\ stop_scraping_flag'
          /\ scraped_data' = scraped_data
          /\ invocations' = invocations
    /\ (~DownloaderMissing /\ DownloaderMissing') => download_status' = MissingStatus
    /\ DownloaderMissing =>
          /\ invocations' = invocations
          /\ folder_calls' = folder_calls
          /\ folders' = folders
          /\ passes' = passes
          /\ scraped_data' = scraped_data
          /\ download_errors' = download_errors
          /\ download_status' \in {MissingStatus, "Download completed."}

C15_MissingDownloaderAborts == [][C15_MissingStep]_vars

\* The downloader was found missing at the first of two pending items with a
\* retry pass configured: _download_videos has returned after that single
\* invocation, the item is still "N" and so is the one after it.
C15_Witness ==
    /\ DownloadReturned
    /\ DownloaderMissing
    /\ config.download_retries >= 1
    /\ status0 = << "N", "N" >>
    /\ Statuses(scraped_data) = << "N", "N" >>
    /\ invocations = 1
    /\ passes = 1

\* C16: the checks at the top of the pass loop, the batch loop and the item
\* loop: in a state where the flag is set no step of _download_videos starts a
\* downloader invocation, makes a batch folder or starts a pass; the one
\* invocation that was running when the flag was set completes and sets its
\* item's status (the only other status change is the reset on entry).
C16_CancelledStep ==
    stop_scraping_flag =>
       /\ invocations' = invocations
       /\ attempted' = attempted
       /\ folder_calls' = folder_calls
       /\ folders' = folders
       /\ passes' = passes
       /\ pc'["worker"] = "dl_run" => pc["worker"] = "dl_run"
       /\ \A i \in 1..Len(scraped_data) :
             scraped_data'[i].status # scraped_data[i].status =>
                \/ pc["worker"] = "dl_begin"
                \/ pc["worker"] = "dl_run" /\ i = CurrentItem

C16_NothingStartsAfterCancel == [][C16_CancelledStep]_vars

\* Cancel was pressed while the first of two items, one per batch, was being
\* downloaded: that download completed, the second item was never attempted,
\* no second folder was made and no retry pass was run.
C16_Witness ==
    /\ DownloadReturned
    /\ cancel_phase = "Download"
    /\ ~DownloaderMissing
    /\ config.batch_size = 1
    /\ config.download_retries >= 1
    /\ status0 = << "N", "N" >>
    /\ Statuses(scraped_data) = << "D", "N" >>
    /\ invocations = 1
    /\ Len(folder_calls) = 1
    /\ passes = 1

\* C17 (as stated): when stop_scraping set the flag while a phase was running,
\* the worker is not ended by an uncaught exception; a cancelled Discovery
\* ends as Cancelled; a cancelled Enrichment is not followed by Download; a
\* cancelled Download does not report "Download completed." and is not
\* followed by the saving of results as after a completed run; and the
\* session of the cancelled phase is closed once the worker has returned.
C17_CancelUnwindsAsCancelled ==
    cancel_phase \in {"Discovery", "Enrichment", "Download"} =>
       /\ pc["worker"] # "raised"
       /\ (cancel_phase = "Discovery" /\ WorkerPhase # "Discovery") =>
             discovery_end = "Cancelled"
       /\ cancel_phase = "Enrichment" => "Download" \notin Range(phases)
       /\ (cancel_phase = "Download" /\ pc["worker"] \in {"dl_return", "exit"}) =>
             download_status # "Download completed." /\ ~results_saved
       /\ pc["worker"] = "exit" => (next_session - 1) \notin sessions

(* ------------------------ properties of the sequencing ------------------ *)
\* The place of a phase in the order Discovery, Enrichment, Download.
PhaseRank(phase) ==
    CASE phase = "Discovery" -> 1
      [] phase = "Enrichment" -> 2
      [] phase = "Download" -> 3

\* C18 (as the code has it): the phases are called in the order Discovery,
\* Enrichment, Download, each only after the one before it has returned;
\* Enrichment is called at most once, only after a Discovery attempt that
\* returned success, and no Discovery attempt follows it; Download is called
\* at most once, only after Enrichment returned True on a store that is not
\* empty; and the phase the worker is in is the last one called.
C18_PhasesInOrder ==
    /\ \A i, j \in 1..Len(phases) :
          i < j => PhaseRank(phases[i]) <= PhaseRank(phases[j])
    /\ CountOf(phases, "Enrichment") <= 1
    /\ CountOf(phases, "Download") <= 1
    /\ "Enrichment" \in Range(phases) =>
          /\ "Discovery" \in Range(phases)
          /\ scraping_successful
          /\ discovery_end \in SuccessEnds
    /\ "Download" \in Range(phases) =>
          /\ "Enrichment" \in Range(phases)
          /\ description_successful
          /\ Len(scraped_data) > 0
    /\ WorkerPhase # "Controller" => phases # << >> /\ Last(phases) = WorkerPhase

\* A run with a failed and a successful Discovery attempt, then Enrichment,
\* then Download, has returned and saved its results.
C18_Witness ==
    /\ phases = << "Discovery", "Discovery", "Enrichment", "Download" >>
    /\ pc["worker"] = "exit"
    /\ results_saved
    /\ ~stop_scraping_flag

\* C18 (as stated): in a run that was not cancelled and has returned after a
\* successful Discovery attempt, Enrichment has run exactly once and Download
\* has run exactly once.
C18_EachLaterPhaseRunsOnce ==
    (pc["worker"] = "exit" /\ ~stop_scraping_flag /\ scraping_successful) =>
       /\ CountOf(phases, "Enrichment") = 1
       /\ CountOf(phases, "Download") = 1

(* ------------------ properties of the use of the browser ---------------- *)
\* The worker's next statement is a call on self.driver: driver.get (186,
\* 133), get_attribute in the scan (225-235), execute_script (260),
\* current_window_handle (313), window_handles (334), set_page_load_timeout
\* (119) or the quit of its own _quit_driver (680).
WorkerAtBrowserCall ==
    \/ pc["worker"] \in {"scrape_open", "scrape_height", "desc_handle", "desc_visit",
                         "desc_windows", "init_timeout", "quit_call"}
    \/ pc["worker"] = "scrape_scan" /\ scan_idx < MaxElems

\* The GUI thread's next statement is the self.driver.quit() of the
\* _quit_driver that stop_scraping calls.
FrontEndAtBrowserCall == pc["frontend"] = "quit_call"

\* C19 (as stated): the two threads are never both at a call on the same open
\* browser session: whenever the GUI thread is about to quit the session, the
\* worker is not about to navigate, scroll, read or quit it.
C19_BrowserCallsSequential ==
    ~(FrontEndAtBrowserCall /\ WorkerAtBrowserCall /\ DriverAlive)

(* -------------------------- ScrapingApp (front end) --------------------- *)
\* The Start button can be pressed this many times.
MaxStarts == 3

\* _enable_buttons as far as Start and Cancel go.
EnableButtons ==
    /\ start_button' = "normal"
    /\ cancel_button' = "disabled"

\* The scrapers' own state is not followed while the front end is.
ScraperUnchanged ==
    UNCHANGED << histvars, winvars, fnvars, config, driver, sessions, next_session, scraped_data,
                 stop_scraping_flag, discvars, dlvars, ctlvars, pc >>

\* _start_scraping with valid input, by a press of the enabled Start button:
\* the buttons, a new scraper, a new daemon thread on its run_full_process,
\* and the first completion check scheduled.
StartScraping ==
    /\ start_button = "normal"
    /\ next_thread <= MaxStarts
    /\ start_button' = "disabled"
    /\ cancel_button' = "normal"
    /\ scraper' = next_thread
    /\ scraping_thread' = next_thread
    /\ alive_threads' = alive_threads \cup {next_thread}
    /\ pending_checks' = pending_checks + 1
    /\ next_thread' = next_thread + 1
    /\ scraper_config' = Configured(scraper_config, next_thread, config)
    /\ UNCHANGED << stop_flags, entries, dialog >>
    /\ ScraperUnchanged

\* _check_scraping_completion, run by the event loop: the buttons are enabled
\* when the thread of the last Start is dead, else the check is scheduled again.
CheckScrapingCompletion ==
    /\ pending_checks > 0
    /\ IF scraping_thread # None /\ scraping_thread \notin alive_threads
       THEN /\ EnableButtons
            /\ pending_checks' = pending_checks - 1
       ELSE UNCHANGED << start_button, cancel_button, pending_checks >>
    /\ UNCHANGED << scraper, scraping_thread, alive_threads, stop_flags, next_thread,
                    formvars >>
    /\ ScraperUnchanged

\* _cancel_scraping, by a press of the enabled Cancel button: stop_scraping on
\* the scraper of the last Start, then _enable_buttons at once.
CancelScraping ==
    /\ cancel_button = "normal"
    /\ stop_flags' = IF scraper # None THEN stop_flags \cup {scraper} ELSE stop_flags
    /\ EnableButtons
    /\ UNCHANGED << scraper, scraping_thread, alive_threads, pending_checks, next_thread,
                    formvars >>
    /\ ScraperUnchanged

\* run_full_process returns, or an exception leaves it, on thread w: at the end
\* of its run, or some steps after it has seen its flag set.
WorkerEnds(w) ==
    /\ w \in alive_threads
    /\ alive_threads' = alive_threads \ {w}
    /\ UNCHANGED << start_button, cancel_button, scraper, scraping_thread, stop_flags,
                    pending_checks, next_thread, formvars >>
    /\ ScraperUnchanged

\* ScrapingApp.__init__: no scraper, no thread, Start enabled, Cancel disabled.
FrontEndIdle ==
    /\ config \in { c \in Configs : /\ c.target_video_count = 1
                                    /\ c.batch_size = 1
                                    /\ c.download_retries = 0
                                    /\ c.download_delay = 1 }
    /\ driver = None
    /\ sessions = {}
    /\ next_session = 1
    /\ scraped_data = << >>
    /\ stop_scraping_flag = FALSE
    /\ scroll_count = 0
    /\ no_new_urls_consecutive_scrolls = 0
    /\ urls_found_set = {}
    /\ last_height = 1
    /\ discovery_end = "Running"
    /\ scraping_successful = FALSE
    /\ feed_mode = "single"
    /\ feed_first_seen = << >>
    /\ num_urls_before_current_scan = 0
    /\ scan_idx = 0
    /\ DownloadIdle
    /\ ControllerAt(<< >>)
    /\ pc = [t \in Threads |-> IF t = "worker" THEN "run_loop" ELSE "idle"]
    /\ start_button = "normal"
    /\ cancel_button = "disabled"
    /\ scraper = None
    /\ scraping_thread = None
    /\ alive_threads = {}
    /\ stop_flags = {}
    /\ pending_checks = 0
    /\ next_thread = 1
    /\ dialog = ""
    /\ scraper_config = << >>

\* The window as it is opened, its fields holding an accepted configuration.
InitFrontEnd == FrontEndIdle /\ entries = FormOf(config)

NextFrontEnd ==
    \/ StartScraping
    \/ CheckScrapingCompletion
    \/ CancelScraping
    \/ \E w \in 1..MaxStarts : WorkerEnds(w)

SpecFrontEnd == InitFrontEnd /\ [][NextFrontEnd]_vars

\* C20 (as stated): at most one worker thread is alive at any time, whatever
\* the sequence of Start and Cancel.
C20_AtMostOneWorker == Cardinality(alive_threads) <= 1

(* ------------------- properties of the download: batches ---------------- *)
\* The store _download_videos is called on may hold this many pending items.
MaxPending == 4

\* _download_videos called on a store of 1..MaxPending items, every status "N".
InitDownloadBatches ==
    \E n \in 1..MaxPending :
       DownloadEntry(StoreOf([i \in 1..n |-> "N"]))

NextDownloadBatches == Download \/ DownloadFrontEnd

SpecDownloadBatches == InitDownloadBatches /\ [][NextDownloadBatches]_vars

\* ceil(n / b)
CeilDiv(n, b) == (n + b - 1) \div b

\* The os.makedirs calls of the pass in progress.
FolderCallsOfPass ==
    Cardinality({k \in 1..Len(folder_calls) : folder_calls[k].attempt = retry_attempt})

\* C21: in a pass over N pending items with batch size B that is not cut short
\* (the flag is not set), batch number n starts at pending item (n - 1) * B
\* with every item before it attempted, has B items, or N mod B (B if that is
\* 0) when it is batch ceil(N/B); the items are attempted in the order of the
\* pending list, each in the batch its position falls in; and the pass ends
\* after exactly ceil(N/B) batches with all N items attempted.
C21_BatchStep ==
    LET N == Len(videos_to_download)
        B == config.batch_size
    IN /\ (folder_calls' # folder_calls /\ ~stop_scraping_flag') =>
             /\ batch_i = (current_batch_num - 1) * B
             /\ batch_i < N
             /\ Len(attempted) = batch_i
             /\ BatchLen = IF current_batch_num < CeilDiv(N, B) THEN B
                           ELSE IF N % B = 0 THEN B ELSE N % B
             /\ FolderCallsOfPass' = current_batch_num
       /\ invocations' # invocations =>
             /\ item_pos < BatchLen
             /\ Len(attempted) = batch_i + item_pos
             /\ attempted' = Append(attempted, videos_to_download[Len(attempted) + 1])
             /\ current_batch_num = (Len(attempted) \div B) + 1
       /\ (pc["worker"] = "dl_batch" /\ pc'["worker"] = "dl_pass_end"
             /\ ~stop_scraping_flag') =>
             /\ attempted = videos_to_download
             /\ current_batch_num - 1 = CeilDiv(N, B)
             /\ FolderCallsOfPass = CeilDiv(N, B)

C21_BatchesPartitionPending == [][C21_BatchStep]_vars

\* A pass over three pending items with batch size 2 has ended uncancelled:
\* two batches, the second of one item.
C21_Witness ==
    /\ pc["worker"] = "dl_pass_end"
    /\ ~stop_scraping_flag
    /\ config.batch_size = 2
    /\ videos_to_download = << 1, 2, 3 >>
    /\ attempted = << 1, 2, 3 >>
    /\ FolderCallsOfPass = 2
    /\ current_batch_num = 3

(* ----------------------- file names of the downloads -------------------- *)
\* Titles are sequences of characters.  A title is short, or short and
\* followed by a long run of one letter.
MaxTitleLen == 2

\* `sanitized_title[:100]`
FilenameLimit == 100

\* `hash(video_url) % 100000`
HashModulus == 100000

DigitChars == << "0", "1", "2", "3", "4", "5", "6", "7", "8", "9" >>

\* str.isalnum for the characters that occur here.
isalnum(c) ==
    c \in {"U", "n", "t", "i", "l", "e", "d", "V", "o", "a"} \cup Range(DigitChars)

\* The characters of page titles: a letter, the four other characters the
\* filter keeps, and one it drops.
TitleChars == {"a", " ", ".", "_", "-", "?"}

Repeat(c, n) == [k \in 1..n |-> c]

ShortTitles == UNION { [1..n -> TitleChars] : n \in 0..MaxTitleLen }

Titles == ShortTitles \cup { t \o Repeat("a", FilenameLimit - 1) : t \in ShortTitles }

\* str(n) for n >= 0
RECURSIVE str(_)
str(n) == IF n < 10 THEN << DigitChars[n + 1] >>
          ELSE str(n \div 10) \o << DigitChars[(n % 10) + 1] >>

\* "Untitled Video " and "Untitled_Video_"
UntitledVideoSpaces ==
    << "U", "n", "t", "i", "t", "l", "e", "d", " ", "V", "i", "d", "e", "o", " " >>

UntitledVideoUnderscores ==
    << "U", "n", "t", "i", "t", "l", "e", "d", "_", "V", "i", "d", "e", "o", "_" >>

\* "".join(c for c in video_title if c.isalnum() or c in (' ', '.', '_', '-'))
Permitted(c) == isalnum(c) \/ c \in {" ", ".", "_", "-"}

KeepPermitted(s) == SelectSeq(s, Permitted)

\* .replace(" ", "_")
SpacesToUnderscores(s) == [k \in 1..Len(s) |-> IF s[k] = " " THEN "_" ELSE s[k]]

\* hash(video_url): a value fixed by the url and by the seed of the process.
hash(url, seed) == url.id * 1000003 + seed * 40503 + 7

\* `video_title`: the title, or "Untitled Video <int(time.time())>" for an
\* empty one.
VideoTitle(item, now) ==
    IF item.title # << >> THEN item.title ELSE UntitledVideoSpaces \o str(now)

\* The file name without the fallback for an empty result.
SanitizedTitleNoFallback(item, now, seed) ==
    LET kept == SpacesToUnderscores(strip(KeepPermitted(VideoTitle(item, now))))
    IN SubSeq(kept, 1, IF Len(kept) < FilenameLimit THEN Len(kept) ELSE FilenameLimit)

\* `sanitized_title` of lines 407-413 for an item at time `now`.
SanitizedTitle(item, now, seed) ==
    LET kept == SpacesToUnderscores(strip(KeepPermitted(VideoTitle(item, now))))
        named == IF kept = << >>
                 THEN UntitledVideoUnderscores \o str(hash(item.url, seed) % HashModulus)
                 ELSE kept
    IN SubSeq(named, 1, IF Len(named) < FilenameLimit THEN Len(named) ELSE FilenameLimit)

\* The item loop computes the file name of the item it is about to download.
SanitizeTitle ==
    /\ pc["worker"] = "dl_item"
    /\ sanitized_title' = SanitizedTitle(scraped_data[1], clock, hash_seed)
    /\ UNCHANGED << histvars, winvars, hash_seed, output_names, guivars, config, driver, sessions, next_session,
                    scraped_data, stop_scraping_flag, discvars, dlvars, ctlvars, pc >>

\* Time passes between two attempts on the item (the sleeps of lines 485-505).
MaxClock == 2

ClockTick ==
    /\ clock < MaxClock
    /\ clock' = clock + 1
    /\ UNCHANGED << histvars, winvars, fnvars, guivars, config, driver, sessions, next_session, scraped_data,
                    stop_scraping_flag, discvars, ctlvars, pc, download_errors,
                    retry_attempt, videos_to_download, batch_i, current_batch_num,
                    item_pos, folders, download_status, folder_calls, attempted,
                    invocations, passes, status0 >>

\* The item loop of _download_videos is at an item with any title, in a
\* process with any hash seed.
InitSanitize ==
    /\ \E t \in Titles :
          scraped_data = << [ItemRecord(Href("abs", 1), t) EXCEPT !.status = "N"] >>
    /\ config \in { c \in Configs : /\ c.target_video_count = 0
                                    /\ c.batch_size = 1
                                    /\ c.download_retries = 1
                                    /\ c.download_delay = 1 }
    /\ driver = None
    /\ sessions = {}
    /\ next_session = 2
    /\ stop_scraping_flag = FALSE
    /\ scroll_count = 1
    /\ no_new_urls_consecutive_scrolls = 0
    /\ urls_found_set = Range(StoreUrls(scraped_data))
    /\ last_height = 1
    /\ discovery_end = "NoMoreContent"
    /\ scraping_successful = TRUE
    /\ feed_mode = "catalogue"
    /\ feed_first_seen = StoreUrls(scraped_data)
    /\ num_urls_before_current_scan = 0
    /\ scan_idx = 0
    /\ download_errors = << >>
    /\ retry_attempt = 0
    /\ videos_to_download = << 1 >>
    /\ batch_i = 0
    /\ current_batch_num = 1
    /\ item_pos = 0
    /\ folders = {}
    /\ clock = 0
    /\ download_status = "Downloading batch"
    /\ folder_calls = << >>
    /\ attempted = << >>
    /\ invocations = 0
    /\ passes = 1
    /\ status0 = << "N" >>
    /\ sanitized_title = << >>
    /\ hash_seed \in {0, 1}
    /\ output_names = << >>
    /\ discarded = 0
    /\ iteration_base = 0
    /\ zero_run = 0
    /\ folder_items = << >>
    /\ window_handles = {FirstHandle}
    /\ current_window = FirstHandle
    /\ original_window_handle = None
    /\ next_handle = FirstHandle + 1
    /\ ControllerAt(<< "Discovery", "Enrichment", "Download" >>)
    /\ GuiRunning
    /\ pc = [t \in Threads |-> IF t = "worker" THEN "dl_item" ELSE "idle"]

NextSanitize == SanitizeTitle \/ ClockTick

SpecSanitize == InitSanitize /\ [][NextSanitize]_vars

\* The characters a file name may hold.
FilenameChar(c) == isalnum(c) \/ c \in {".", "_", "-"}

\* C22 (as the code has it): the file name computed for an item is never
\* empty, holds only alphanumerics, dots, underscores and hyphens, and is at
\* most FilenameLimit long; a title of which nothing is kept gives the
\* placeholder "Untitled_Video_" followed by digits; for a title that is not
\* empty the name is the same every time it is computed in the process; for an
\* empty title it carries the time of the computation.
C22_WellFormedStep ==
    LET item == scraped_data[1]
        name == SanitizedTitle(item, clock, hash_seed)
    IN /\ name # << >>
       /\ \A k \in 1..Len(name) : FilenameChar(name[k])
       /\ Len(name) <= FilenameLimit
       /\ strip(KeepPermitted(item.title)) = << >> =>
             /\ IsPrefix(UntitledVideoUnderscores, name)
             /\ \A k \in Len(UntitledVideoUnderscores) + 1..Len(name) :
                   name[k] \in Range(DigitChars)
       /\ item.title = << >> => name = UntitledVideoUnderscores \o str(clock)
       /\ (item.title # << >> /\ sanitized_title # << >>) =>
             sanitized_title' = sanitized_title

C22_FilenameStep ==
    LET item == scraped_data[1]
        name == SanitizedTitle(item, clock, hash_seed)
    IN /\ name # << >>
       /\ \A k \in 1..Len(name) : FilenameChar(name[k])
       /\ Len(name) <= FilenameLimit
       /\ (KeepPermitted(item.title) = << >> /\ sanitized_title # << >>) =>
             sanitized_title' = sanitized_title

StoreExtends(s, t) ==
    /\ Len(s) <= Len(t)
    /\ \A i \in 1..Len(s) : s[i].url = t[i].url /\ s[i].title = t[i].title

\* C23 (as the code has it): the entry of every Discovery attempt empties the
\* store (`self.scraped_data = []`); every other step of the run leaves the
\* records it holds in place and at most appends to them.
C23_StoreStep ==
    IF pc["worker"] = "scrape_begin" /\ pc'["worker"] # "scrape_begin"
    THEN scraped_data' = << >> /\ discarded' = discarded + Len(scraped_data)
    ELSE StoreExtends(scraped_data, scraped_data') /\ discarded' = discarded

C23_StoreGrowsWithinAttempt == [][C23_StoreStep]_vars

\* A second Discovery attempt has dropped the record the failed first attempt
\* had found, and has failed before finding any: the run has ended with an
\* empty store.
C23_Witness ==
    /\ phases = << "Discovery", "Discovery" >>
    /\ discarded = 1
    /\ scraped_data = << >>
    /\ pc["worker"] = "exit"

\* C23 (as stated): every step of the run leaves the records of the store in
\* place and at most appends to them.
C23_StoreOnlyGrows == [][StoreExtends(scraped_data, scraped_data')]_vars

(* -------------- properties of the download: per-item failures ----------- *)
\* This step is the return of the downloader with a failure of the item
\* (CalledProcessError, TimeoutError or another exception, not a missing
\* downloader).
ItemFailed ==
    /\ pc["worker"] = "dl_run"
    /\ pc'["worker"] # "dl_run"
    /\ Len(download_errors') > Len(download_errors)
    /\ Last(download_errors').error = "item failed"

\* C24: a failed attempt sets the item's status to "E", leaves every other
\* status alone, appends one entry with the item's url, does not set the flag
\* and goes on to the next round of the item loop; with the flag not set the
\* item loop starts the downloader for every item of the batch, and a pass
\* that ends with the flag not set has attempted every pending item.
C24_FailureStep ==
    /\ ItemFailed =>
          /\ scraped_data'[CurrentItem].status = "E"
          /\ \A i \in 1..Len(scraped_data) :
                i # CurrentItem => scraped_data'[i] = scraped_data[i]
          /\ download_errors' =
                Append(download_errors,
                       [url |-> scraped_data[CurrentItem].url,
                        title |-> scraped_data[CurrentItem].title,
                        error |-> "item failed"])
          /\ stop_scraping_flag' = stop_scraping_flag
          /\ item_pos' = item_pos + 1
          /\ pc'["worker"] = "dl_item"
    /\ (pc["worker"] = "dl_item" /\ pc'["worker"] # "dl_item"
          /\ ~stop_scraping_flag /\ item_pos < BatchLen) =>
          invocations' = invocations + 1 /\ pc'["worker"] = "dl_run"
    /\ (pc["worker"] = "dl_batch_end" /\ pc'["worker"] # "dl_batch_end"
          /\ ~stop_scraping_flag) => pc'["worker"] = "dl_batch"
    /\ (pc["worker"] = "dl_batch" /\ pc'["worker"] = "dl_pass_end"
          /\ ~stop_scraping_flag') => attempted = videos_to_download

C24_ItemFailureDoesNotAbort == [][C24_FailureStep]_vars

\* The first item of a batch of two failed and the second was downloaded; the
\* pass has ended uncancelled with both attempted and one error entry.
C24_Witness ==
    /\ pc["worker"] = "dl_pass_end"
    /\ ~stop_scraping_flag
    /\ retry_attempt = 0
    /\ config.batch_size = 2
    /\ status0 = << "N", "N" >>
    /\ Statuses(scraped_data) = << "E", "D" >>
    /\ attempted = << 1, 2 >>
    /\ Len(download_errors) = 1

(* -------------- properties of Enrichment: per-item failures ------------- *)
\* C25: the visit of an item, whatever fails in it, and the clean-up of the
\* contexts after it, whatever fails in it, are followed by the next round of
\* the item loop with the next item of the store; the item loop is left
\* before the end of the store only with the flag set.
C25_EnrichmentStep ==
    /\ (pc["worker"] = "desc_visit" /\ pc'["worker"] # "desc_visit") =>
          pc'["worker"] = "desc_windows"
    /\ (pc["worker"] = "desc_windows" /\ pc'["worker"] # "desc_windows") =>
          /\ pc'["worker"] = "desc_item"
          /\ desc_i' = desc_i + 1
    /\ (pc["worker"] \in {"desc_item", "desc_visit", "desc_windows"}
          /\ pc'["worker"] \notin {"desc_item", "desc_visit", "desc_windows"}) =>
          \/ stop_scraping_flag
          \/ desc_i = Len(scraped_data)

C25_EnrichmentNeverAborts == [][C25_EnrichmentStep]_vars

(* ---------------- properties of Discovery: the stall counter ------------ *)
\* This step is the height test of an iteration whose height changed, with the
\* counter between StallWarn and StallLimit - 1.
WarnedHeightChange ==
    /\ pc["worker"] = "scrape_height"
    /\ pc'["worker"] # "scrape_height"
    /\ last_height' # last_height
    /\ no_new_urls_consecutive_scrolls >= StallWarn
    /\ no_new_urls_consecutive_scrolls < StallLimit

\* C26: the stall counter is the number of latest consecutive iterations that
\* appended no record to the store, the target test ending an iteration
\* included; an iteration whose height changed with the counter between
\* StallWarn and StallLimit - 1 is followed by another iteration.
C26_CounterStep ==
    /\ no_new_urls_consecutive_scrolls' = zero_run'
    /\ (pc["worker"] = "scrape_scan" /\ pc'["worker"] # "scrape_scan"
          /\ discovery_end' # "Failed") =>
          no_new_urls_consecutive_scrolls' =
             IF Len(scraped_data) > iteration_base
             THEN 0
             ELSE no_new_urls_consecutive_scrolls + 1
    /\ WarnedHeightChange =>
          /\ pc'["worker"] = "scrape_loop"
          /\ discovery_end' = "Running"
          /\ UNCHANGED << scraped_data, no_new_urls_consecutive_scrolls >>

C26_CounterCountsEmptyIterations == [][C26_CounterStep]_vars

\* The second iteration found a record and the seven after it none; the
\* height changed every time and the tenth iteration is about to start.
C26_Witness ==
    /\ pc["worker"] = "scrape_loop"
    /\ discovery_end = "Running"
    /\ scroll_count = 9
    /\ Len(scraped_data) = 1
    /\ zero_run = 7
    /\ no_new_urls_consecutive_scrolls = 7

(* ---------------- properties of Discovery: the target test -------------- *)
\* C27: Discovery ends by the target only with a nonzero target that the store
\* has reached in the iteration just ended and had not reached when that
\* iteration began; with a nonzero target no height test is made and no
\* iteration is started while the store holds the target or more; with a
\* target of 0 Discovery never ends by the target.
C27_TargetEndsDiscovery ==
    /\ discovery_end = "TargetReached" =>
          /\ DiscoveryReturned
          /\ config.target_video_count > 0
          /\ Len(scraped_data) >= config.target_video_count
          /\ iteration_base < config.target_video_count
    /\ (config.target_video_count > 0
          /\ pc["worker"] \in {"scrape_height", "scrape_loop"}) =>
          Len(scraped_data) < config.target_video_count
    /\ config.target_video_count = 0 => discovery_end # "TargetReached"

\* Discovery ended by a target of 1 with two records, both found in the third
\* iteration.
C27_Witness ==
    /\ DiscoveryReturned
    /\ discovery_end = "TargetReached"
    /\ config.target_video_count = 1
    /\ scroll_count = 3
    /\ iteration_base = 0
    /\ Len(scraped_data) = 2

(* -------------------------- Enrichment on its own ----------------------- *)
\* _get_descriptions_phase is about to be called on store `data`: Discovery
\* has ended and its browser session has been closed.
EnrichmentEntry(data) ==
    /\ config \in { c \in Configs : /\ c.target_video_count = 0
                                    /\ c.batch_size = 1
                                    /\ c.download_retries = 0
                                    /\ c.download_delay = 1 }
    /\ driver = None
    /\ sessions = {}
    /\ next_session = 2
    /\ scraped_data = data
    /\ stop_scraping_flag = FALSE
    /\ scroll_count = 1
    /\ no_new_urls_consecutive_scrolls = 0
    /\ urls_found_set = Range(StoreUrls(data))
    /\ last_height = 1
    /\ discovery_end = "NoMoreContent"
    /\ scraping_successful = TRUE
    /\ feed_mode = "catalogue"
    /\ feed_first_seen = StoreUrls(data)
    /\ num_urls_before_current_scan = 0
    /\ scan_idx = 0
    /\ DownloadIdle
    /\ ControllerAt(<< "Discovery", "Enrichment" >>)
    /\ GuiRunning
    /\ pc = [t \in Threads |-> IF t = "worker" THEN "desc_begin" ELSE "idle"]

InitEnrichment == \E data \in Stores({"N"}) : EnrichmentEntry(data)

\* _get_descriptions_phase with the calls it makes, and the front end.
NextEnrichment ==
    \/ Enrichment
    \/ InitCreate
    \/ InitTimeout
    \/ QuitCheck("worker")
    \/ QuitCall("worker")
    \/ QuitFinally("worker")
    \/ QuitReturn
    \/ FrontEnd

SpecEnrichment == InitEnrichment /\ [][NextEnrichment]_vars

(* ---------------- properties of Enrichment: browser contexts ------------ *)
\* C28: at the top of the item loop and when a visit is about to start, the
\* session, while it is open, has the original context as its only context
\* and its commands go to it, whatever contexts the visits before have opened.
C28_OneContextBetweenItems ==
    (pc["worker"] \in {"desc_item", "desc_visit"} /\ DriverAlive) =>
       /\ window_handles = {original_window_handle}
       /\ current_window = original_window_handle

\* The visit of the first item opened two contexts; they are closed and the
\* second item is about to be visited.
C28_Witness ==
    /\ pc["worker"] = "desc_visit"
    /\ DriverAlive
    /\ desc_i = 1
    /\ next_handle = FirstHandle + 3
    /\ window_handles = {FirstHandle}
    /\ current_window = FirstHandle
    /\ original_window_handle = FirstHandle

(* ------------- Enrichment and the download, one after the other --------- *)
\* _get_descriptions_phase and, when it returns True with the flag not set,
\* _download_videos on the same store.
NextPhases ==
    \/ NextEnrichment
    \/ DescReturn
    \/ Download

SpecPhases == InitEnrichment /\ [][NextPhases]_vars

(* ------------- properties of the store: what each phase writes ---------- *)
\* Store t has the records of store s, in the same order, but for the fields
\* named.
SameBut(s, t, fields) ==
    /\ Len(t) = Len(s)
    /\ \A i \in 1..Len(s) :
         \A f \in {"url", "title", "description", "status"} \ fields :
            t[i][f] = s[i][f]

\* C29: while the worker is in Enrichment a step changes nothing of the store
\* but description fields, while it is in the download nothing but status
\* fields; the length, the order, the urls and the titles stay.
C29_PhaseStep ==
    /\ WorkerPhase = "Enrichment" => SameBut(scraped_data, scraped_data', {"description"})
    /\ WorkerPhase = "Download" => SameBut(scraped_data, scraped_data', {"status"})
    /\ StoreUrls(scraped_data') = StoreUrls(scraped_data)

C29_PhasesWriteOwnFields == [][C29_PhaseStep]_vars

\* Both phases have run on a store of two records: Enrichment found a text for
\* the first only, the download left the first downloaded and the second
\* errored, and urls and titles are those Discovery stored.
C29_Witness ==
    /\ pc["worker"] = "dl_return"
    /\ phases = << "Discovery", "Enrichment", "Download" >>
    /\ scraped_data = [StoreOf(<< "D", "E" >>) EXCEPT ![1].description = "text"]

(* ---------------- properties of the download: the error list ------------ *)
\* The downloader invocations of this run that have ended without a download:
\* those that have ended, less the items that have become "D" in the run.
FailedInvocations ==
    (invocations - (IF pc["worker"] = "dl_run" THEN 1 ELSE 0))
       - (CountOf(Statuses(scraped_data), "D") - CountOf(status0, "D"))

\* The error list accounts for the failures of the run and for every "E".
ErrorsAccountForFailures ==
    /\ Len(download_errors) = FailedInvocations
    /\ \A i \in 1..Len(scraped_data) :
         scraped_data[i].status = "E" =>
            \E k \in 1..Len(download_errors) : download_errors[k].url = scraped_data[i].url

\* C30: after the reset at its entry the orchestrator only appends to the
\* error list; the list is as long as the number of invocations that have
\* failed so far in all passes of the run, the missing downloader included;
\* every item with status "E" has an entry with its url.
C30_ErrorStep ==
    /\ pc["worker"] # "dl_begin" => IsPrefix(download_errors, download_errors')
    /\ pc'["worker"] # "dl_begin" => ErrorsAccountForFailures'

C30_ErrorListAccounts == [][C30_ErrorStep]_vars

\* The only item failed in the first pass and again in the retry pass: two
\* entries with its url, and its status is "E".
C30_Witness ==
    /\ pc["worker"] = "dl_pass_end"
    /\ ~stop_scraping_flag
    /\ retry_attempt = 1
    /\ Len(scraped_data) = 1
    /\ scraped_data[1].status = "E"
    /\ invocations = 2
    /\ Len(download_errors) = 2
    /\ download_errors[1].url = scraped_data[1].url
    /\ download_errors[2].url = scraped_data[1].url

(* ---------------- properties of the download: the entry reset ----------- *)
\* C31: when the first pass is about to start, every item that was "D" on
\* entry is "D", every other item is "N", so none is "E", and the items that
\* are "D" are those that were "D" on entry.
C31_ResetBeforeFirstPass ==
    (pc["worker"] = "dl_pass" /\ retry_attempt = 0) =>
       /\ Len(status0) = Len(scraped_data)
       /\ \A i \in 1..Len(scraped_data) :
             /\ scraped_data[i].status = (IF status0[i] = "D" THEN "D" ELSE "N")
             /\ scraped_data[i].status # "E"
       /\ { i \in 1..Len(scraped_data) : scraped_data[i].status = "D" } =
             { i \in 1..Len(status0) : status0[i] = "D" }

\* The orchestrator was entered on a store with one item "E" and one "D"; the
\* reset is done and the first pass is about to start.
C31_Witness ==
    /\ pc["worker"] = "dl_pass"
    /\ retry_attempt = 0
    /\ status0 = << "E", "D" >>
    /\ Statuses(scraped_data) = << "N", "D" >>

(* ------------------- _start_scraping with its validation ---------------- *)
\* _start_scraping by a press of the enabled Start button, on whatever the
\* fields hold: the first failing check shows its message box and returns, a
\* TclError or a failing os.makedirs leaves the handler as well; else the
\* buttons, a new scraper with the configuration read from the fields, its
\* thread and the first completion check.
StartScrapingInput ==
    /\ start_button = "normal"
    /\ next_thread <= MaxStarts
    /\ \E makedirs_ok \in BOOLEAN :
         IF InputError(entries) # "" \/ ~makedirs_ok
         THEN /\ dialog' = IF InputError(entries) # ""
                           THEN InputError(entries)
                           ELSE "Failed to create output folder"
              /\ UNCHANGED << start_button, cancel_button, scraper, scraping_thread,
                              alive_threads, pending_checks, next_thread,
                              scraper_config >>
         ELSE /\ start_button' = "disabled"
              /\ cancel_button' = "normal"
              /\ scraper' = next_thread
              /\ scraping_thread' = next_thread
              /\ alive_threads' = alive_threads \cup {next_thread}
              /\ pending_checks' = pending_checks + 1
              /\ next_thread' = next_thread + 1
              /\ scraper_config' =
                    Configured(scraper_config, next_thread, ConfigOf(entries))
              /\ UNCHANGED dialog
    /\ UNCHANGED << stop_flags, entries >>
    /\ ScraperUnchanged

\* The window is opened with any texts in its fields.
InitStart == FrontEndIdle /\ entries \in Forms

NextStart ==
    \/ StartScrapingInput
    \/ CheckScrapingCompletion
    \/ \E w \in 1..MaxStarts : WorkerEnds(w)

SpecStart == InitStart /\ [][NextStart]_vars

(* --------------------- properties of the validation --------------------- *)
\* The fields hold a channel URL that is not empty and starts with http once
\* stripped, and numbers within the limits of the validation.
FieldsValid(f) ==
    /\ LET url == strip(f.channel_url)
       IN /\ Len(url) >= 4
          /\ url[1] = "h" /\ url[2] = "t" /\ url[3] = "t" /\ url[4] = "p"
    /\ \A k \in {"target_video_count", "scroll_delay", "download_delay",
                 "download_retries", "batch_size"} : ~IntVarGet(f[k]).raised
    /\ IntVarGet(f.target_video_count).value >= 0
    /\ IntVarGet(f.scroll_delay).value >= 1
    /\ IntVarGet(f.download_delay).value >= 0
    /\ IntVarGet(f.download_retries).value >= 0
    /\ IntVarGet(f.batch_size).value >= 1

\* C32: a step creates a scraper or starts a thread only with valid fields,
\* and the scraper's configuration is the one read from them, within the
\* limits; with fields that are not valid no step creates a scraper, hands
\* out a configuration or starts a thread; a configuration handed out is the
\* same after every step.
C32_StartStep ==
    /\ (scraper' # scraper \/ ~(alive_threads' \subseteq alive_threads)
           \/ DOMAIN scraper_config' # DOMAIN scraper_config) =>
          /\ FieldsValid(entries)
          /\ scraper' \in alive_threads'
          /\ scraper_config'[scraper'] = ConfigOf(entries)
          /\ scraper_config'[scraper'].target_video_count >= 0
          /\ scraper_config'[scraper'].download_delay >= 0
          /\ scraper_config'[scraper'].download_retries >= 0
          /\ scraper_config'[scraper'].batch_size >= 1
    /\ ~FieldsValid(entries) =>
          /\ UNCHANGED << scraper, scraping_thread, alive_threads, scraper_config,
                          next_thread >>
          /\ alive_threads = {}
          /\ scraper = None
    /\ \A s \in DOMAIN scraper_config :
          s \in DOMAIN scraper_config' /\ scraper_config'[s] = scraper_config[s]
    /\ config' = config

C32_OnlyValidatedConfigStarts == [][C32_StartStep]_vars

\* A worker runs on the configuration read from fields with a padded https
\* URL, a decimal target and a download delay of 0.
C32_Witness ==
    /\ alive_threads = {1}
    /\ scraper = 1
    /\ entries.channel_url = << " ", "h", "t", "t", "p", "s", " " >>
    /\ entries.target_video_count = "1.5"
    /\ entries.download_delay = "0"
    /\ scraper_config[1] = ConfigOf(entries)
    /\ scraper_config[1].target_video_count = 1

\* The batch size field holds 0: the message box is shown and there is no
\* scraper, no configuration and no thread.
C32_RejectedWitness ==
    /\ dialog = "Download Batch Size must be a positive integer."
    /\ entries.batch_size = "0"
    /\ scraper = None
    /\ scraper_config = << >>
    /\ alive_threads = {}

(* ---------------- properties of the results: the workbooks -------------- *)
\* The items the downloader was started for with folder f as its target.
ItemsOf(f) == IF f \in DOMAIN folder_items THEN folder_items[f] ELSE {}

\* C33: once the results are saved, every batch folder made in the run holds
\* a workbook, and the rows of that workbook are the items the downloader was
\* started for with that folder as its target, no other, each with the
\* status the item has at the end.
C33_EveryFolderHasItsTable ==
    results_saved =>
       \A f \in folders :
          /\ f \in DOMAIN tables
          /\ { tables[f][k] : k \in 1..Len(tables[f]) } =
                { [url |-> scraped_data[i].url, status |-> scraped_data[i].status] :
                     i \in ItemsOf(f) }

(* --------------- the worker under a fair scheduler ---------------------- *)
\* The worker thread keeps running: every call it makes returns or raises and
\* every sleep ends.
WorkerStep == Controller \/ Discovery \/ Enrichment \/ Download

SpecPipelineLive == SpecPipeline /\ WF_vars(WorkerStep)

(* ------------------- properties of the cancellation --------------------- *)
\* With the flag set, a step leaves it set and starts no Enrichment and no
\* Download; it starts no Discovery attempt either when the flag was set
\* while the worker was in a phase.  Set while the browser of a Discovery
\* attempt was being started, the flag is first seen at the top of the
\* scroll loop of that attempt.
C34_FlagStep ==
    stop_scraping_flag =>
       /\ stop_scraping_flag'
       /\ \/ phases' = phases
          \/ cancel_phase = "Controller" /\ phases' = Append(phases, "Discovery")

\* C34: once the flag is set it stays set, the worker starts no later phase
\* and no Discovery attempt once the flag was set within a phase, and the
\* worker eventually leaves run_full_process.
C34_CancellationEffective ==
    /\ [][C34_FlagStep]_vars
    /\ stop_scraping_flag ~> WorkerExited

\* The flag was set while the worker was in Enrichment; the worker has left
\* run_full_process and Download was never started.
C34_Witness ==
    /\ stop_scraping_flag
    /\ WorkerExited
    /\ cancel_phase = "Enrichment"
    /\ phases = << "Discovery", "Enrichment" >>
    /\ stats_shown = 1

(* ---------------- properties of the download: the timeout -------------- *)
\* C35: with a configuration the validation accepts, the timeout of every
\* downloader invocation, 5 * download_delay, is above 0, and the invocation
\* can return with the download done.
C35_TimeoutPositive ==
    (pc["worker"] = "dl_run" /\ InputError(FormOf(config)) = "") =>
       /\ config.download_delay * 5 > 0
       /\ "ok" \in RunOutcomes

\* ---------------------------------------------------------------------------
\* The file names of one batch (src/main.py 402-413, 443): the item loop of
\* `_download_videos` computes sanitized_title for every item of the batch and
\* joins it to the one batch folder.  The store holds two items of one batch,
\* whose URLs differ because Discovery keeps one record per URL.
\* ---------------------------------------------------------------------------
\* The titles of the items of the batch: the short titles, and two long ones
\* that differ after the first FilenameLimit characters.
BatchTitles ==
    ShortTitles \cup { Repeat("a", FilenameLimit) \o t : t \in { << "a" >>, << "_" >> } }

InitSanitizeBatch ==
    /\ \E t1, t2 \in BatchTitles :
          scraped_data = << [ItemRecord(Href("abs", 1), t1) EXCEPT !.status = "N"],
                            [ItemRecord(Href("abs", 2), t2) EXCEPT !.status = "N"] >>
    /\ config \in { c \in Configs : /\ c.target_video_count = 0
                                    /\ c.batch_size = 2
                                    /\ c.download_retries = 1
                                    /\ c.download_delay = 1 }
    /\ driver = None
    /\ sessions = {}
    /\ next_session = 2
    /\ stop_scraping_flag = FALSE
    /\ scroll_count = 1
    /\ no_new_urls_consecutive_scrolls = 0
    /\ urls_found_set = Range(StoreUrls(scraped_data))
    /\ last_height = 1
    /\ discovery_end = "NoMoreContent"
    /\ scraping_successful = TRUE
    /\ feed_mode = "catalogue"
    /\ feed_first_seen = StoreUrls(scraped_data)
    /\ num_urls_before_current_scan = 0
    /\ scan_idx = 0
    /\ download_errors = << >>
    /\ retry_attempt = 0
    /\ videos_to_download = << 1, 2 >>
    /\ batch_i = 0
    /\ current_batch_num = 1
    /\ item_pos = 0
    /\ folders = {}
    /\ clock = 0
    /\ download_status = "Downloading batch"
    /\ folder_calls = << >>
    /\ attempted = << >>
    /\ invocations = 0
    /\ passes = 1
    /\ status0 = << "N", "N" >>
    /\ sanitized_title = << >>
    /\ hash_seed \in {0, 1}
    /\ output_names = << >>
    /\ discarded = 0
    /\ iteration_base = 0
    /\ zero_run = 0
    /\ folder_items = << >>
    /\ window_handles = {FirstHandle}
    /\ current_window = FirstHandle
    /\ original_window_handle = None
    /\ next_handle = FirstHandle + 1
    /\ ControllerAt(<< "Discovery", "Enrichment", "Download" >>)
    /\ GuiRunning
    /\ pc = [t \in Threads |-> IF t = "worker" THEN "dl_item" ELSE "idle"]

\* One iteration of `for video_data in batch_videos` up to the --output
\* argument: the name of the next item of the batch.
SanitizeBatchItem ==
    /\ pc["worker"] = "dl_item"
    /\ item_pos < Len(videos_to_download)
    /\ sanitized_title' = SanitizedTitle(scraped_data[videos_to_download[item_pos + 1]],
                                         clock, hash_seed)
    /\ output_names' = Append(output_names, sanitized_title')
    /\ item_pos' = item_pos + 1
    /\ UNCHANGED << histvars, winvars, hash_seed, guivars, config, driver, sessions, next_session,
                    scraped_data, stop_scraping_flag, discvars, ctlvars, pc, download_errors,
                    retry_attempt, videos_to_download, batch_i, current_batch_num,
                    folders, clock, download_status, folder_calls, attempted,
                    invocations, passes, status0 >>

NextSanitizeBatch == SanitizeBatchItem \/ ClockTick

SpecSanitizeBatch == InitSanitizeBatch /\ [][NextSanitizeBatch]_vars

\* C36: within one batch, two distinct items never get the same output path:
\* the file names computed for the items of a batch are pairwise distinct.
C36_NamesDistinct ==
    \A k, l \in 1..Len(output_names) : k # l => output_names[k] # output_names[l]

\* C37 (as stated): every run of run_full_process reports the final
\* statistics exactly once before the worker exits, whether it returned or
\* was ended by an exception: never more than one report, and one report
\* once the worker has exited.
C37_StatsReportedOnce ==
    /\ stats_shown <= 1
    /\ WorkerExited => stats_shown = 1

(* ------------- properties of the download: the uncancelled return ------- *)
\* The entries of the error list made for item i of the store.
ErrorsOf(i) ==
    { k \in 1..Len(download_errors) : download_errors[k].url = scraped_data[i].url }

\* C38: when _download_videos has returned on a non-empty store with the flag
\* not set and the downloader not missing, every item is "D" or "E", none is
\* "N"; an item is "E" only if the run made all download_retries + 1 passes
\* and the invocation made for the item failed in each of them.
C38_NoItemLeftPending ==
    (DownloadReturned /\ Len(scraped_data) > 0
        /\ ~stop_scraping_flag /\ ~DownloaderMissing) =>
       \A i \in 1..Len(scraped_data) :
          /\ scraped_data[i].status \in {"D", "E"}
          /\ scraped_data[i].status = "E" =>
                /\ passes = config.download_retries + 1
                /\ Cardinality(ErrorsOf(i)) = config.download_retries + 1

\* With one retry pass, the first of two items failed in both passes and the
\* second failed once and was downloaded by the retry: the uncancelled run
\* has returned with statuses "E" and "D" and three error entries.
C38_Witness ==
    /\ DownloadReturned
    /\ ~stop_scraping_flag
    /\ ~DownloaderMissing
    /\ config.download_retries = 1
    /\ status0 = << "N", "N" >>
    /\ Statuses(scraped_data) = << "E", "D" >>
    /\ passes = 2
    /\ Cardinality(ErrorsOf(1)) = 2
    /\ Cardinality(ErrorsOf(2)) = 1
    /\ invocations = 4

====
